---- MODULE Spec2Model ----
(***************************************************************************)
(* Model of ropic's Either container (src/core/either_impl.hpp), its       *)
(* promise (src/core/either.hpp) and its awaiters                          *)
(* (src/core/either_awaiters.inl), driven by the helper coroutines of the  *)
(* test suite and of the examples.                                         *)
(*                                                                         *)
(* The heap holds Either objects and coroutine frames.  A test driver      *)
(* constructs, moves, assigns and destroys Eithers and calls steps; steps  *)
(* run statement by statement on a call stack; a foreign producer resumes  *)
(* a suspended frame.                                                      *)
(*                                                                         *)
(* int and double payloads are numbers, std::string payloads are sequences *)
(* of characters, and an error payload is its message: a text with the     *)
(* string that is spliced into it.                                         *)
(***************************************************************************)
EXTENDS Integers, Sequences, FiniteSets, TLC

\* ------------------------------------------------------------------ bounds
MaxEithers == 6
MaxFrames == 4
MaxCalls == 1
MaxChain == 2
MaxDepth == 3
MaxInput == 1
MaxDriver == 2
MaxMoves == 3

\* --------------------------------------------------------------- constants
\* nullptr, the null coroutine handle and the null Borrower
NULL == 0

\* awaitAndAdd(returnData(10), 5)
AddDelta == 5

\* The owner of the Eithers that are variables of the test driver
DRIVER == 0

EitherIds == 1..MaxEithers
FrameIds == 1..MaxFrames
DataInputs == 0..MaxInput

VARIABLES either, frame, stack, fault, lastOp, ncalls, tracker

vars == <<either, frame, stack, fault, lastOp, ncalls, tracker>>

\* --------------------------------------------------------------- messages
Message(text) == [text |-> text, arg |-> <<>>]
ErrorInputs == {Message("error"), Message("new error")}

\* ------------------------------------------------------------ the variant
\* std::variant<std::monostate, DATA, ERROR> _result
\* (data: a number payload, str: a std::string payload; trk: the payload is
\* a MoveTracker, whose value is data)
Monostate ==
  [alt |-> "monostate", data |-> 0, str |-> <<>>, error |-> Message(""),
   trk |-> FALSE]
DataAlt(d) == [Monostate EXCEPT !.alt = "data", !.data = d]
StrAlt(t) == [Monostate EXCEPT !.alt = "data", !.str = t]

\* MoveTracker{-1} as the Error of an Either<int, MoveTracker>
TrackerMessage == Message("MoveTracker{-1}")
ErrorAlt(e) ==
  [Monostate EXCEPT !.alt = "error", !.error = e, !.trk = (e = TrackerMessage)]

\* ------------------------------------------------------------ MoveTracker
\* static int s_copyCount; static int s_moveCount;  MoveTracker::reset()
NoCounts == [s_copyCount |-> 0, s_moveCount |-> 0]

\* MoveTracker(const MoveTracker&) / operator=(const MoveTracker&)
MoveTracker_copy(T) == [T EXCEPT !.s_copyCount = @ + 1]

\* MoveTracker(MoveTracker&&) / operator=(MoveTracker&&)
MoveTracker_move(T) == [T EXCEPT !.s_moveCount = @ + 1]

\* Either<MoveTracker, std::string> holding MoveTracker{v}
TrackerAlt(v) == [DataAlt(v) EXCEPT !.trk = TRUE]

\* The counters after the payload of the variant r was moved (std::move of
\* the variant, or of the object a Borrower points to)
MovePayload(T, r) == IF r.trk THEN MoveTracker_move(T) ELSE T

\* The counters after the payload of the variant r was copied
CopyPayload(T, r) == IF r.trk THEN MoveTracker_copy(T) ELSE T

\* The payload after it was moved from: other.value = -1 for a MoveTracker
MovedFromPayload(r) == IF r.trk THEN [r EXCEPT !.data = 0 - 1] ELSE r

\* Unit::OK, the single value of Void
OK == 0

\* A slot of the heap that holds no Either object
FreeEither == [st |-> "free", handle |-> NULL, result |-> Monostate, owner |-> DRIVER]

\* What a foreign producer answers to the await protocol: await_ready(),
\* await_suspend() and the std::string that await_resume() returns
NoAwaitable == [ready |-> TRUE, suspend |-> FALSE, data |-> <<>>]

\* examples::AsyncFetch{returnData}: await_ready() is false, await_suspend()
\* starts the thread that will resume the handle and returns true,
\* await_resume() returns std::move(_data)
AsyncFetch(returnData) == [ready |-> FALSE, suspend |-> TRUE, data |-> returnData]

\* A frame id that no call has used yet
NoFrame ==
  [st |-> "none", fn |-> "", pc |-> 0, ph |-> "", x |-> 0, y |-> 0, z |-> 0,
   fs |-> {}, m |-> Message(""), s1 |-> <<>>, s2 |-> <<>>, acc |-> 0,
   either |-> NULL, origin |-> NULL, tmp |-> NULL, param |-> NULL,
   loc1 |-> NULL, loc2 |-> NULL, ref |-> NULL, has |-> FALSE, val |-> 0,
   aw |-> NoAwaitable, t1 |-> <<>>, t2 |-> <<>>]

\* A frame that was destroyed while the thread of an AsyncFetch still holds
\* its handle
FreedFrame == [NoFrame EXCEPT !.st = "freed"]

\* A constructor that stores a default error instead of its argument
EitherFromError_Default(e, owner) ==
  [st |-> "live", handle |-> NULL, result |-> ErrorAlt(Message("")),
   owner |-> owner]

\* ---------------------------------------------------------- constructors
\* EitherImpl(ERROR e) : _handle(nullptr), _result(std::move(e))
EitherFromError(e, owner) ==
  [st |-> "live", handle |-> NULL, result |-> ErrorAlt(e), owner |-> owner]

\* A constructor that leaves the variant empty
EitherFromData_Empty(d, owner) ==
  [st |-> "live", handle |-> NULL, result |-> Monostate, owner |-> owner]

\* A constructor that stores its int argument through a 16-bit temporary
EitherFromData_Narrow(d, owner) ==
  [st |-> "live", handle |-> NULL,
   result |-> DataAlt(((d + 32768) % 65536) - 32768), owner |-> owner]

\* EitherImpl(DATA d) : _handle(nullptr), _result(std::move(d))
EitherFromData(d, owner) ==
  [st |-> "live", handle |-> NULL, result |-> DataAlt(d), owner |-> owner]

\* explicit EitherImpl(Handle h) : _handle(h), _result(std::monostate{})
EitherFromHandle(h, owner) ==
  [st |-> "live", handle |-> h, result |-> Monostate, owner |-> owner]

\* -------------------------------------------------------------- accessors
\* done(): !holds_alternative<monostate>(_result)
done(e) == e.result.alt # "monostate"

\* A Borrower is a pointer: the id of the Either whose payload it points
\* into, or NULL.  error(): Borrower{get_if<ERROR>(&_result)}
error(E, i) == IF E[i].result.alt = "error" THEN i ELSE NULL

\* data() that tests done() instead of the DATA alternative
data_AnyAlternative(E, i) == IF E[i].result.alt # "monostate" THEN i ELSE NULL

\* data(): Borrower{get_if<DATA>(&_result)}
data(E, i) == IF E[i].result.alt = "data" THEN i ELSE NULL

\* An accessor that hands the payload out and leaves the Either empty
Access_Consume(H, i, which) ==
  [heap |-> [H EXCEPT !.either[i].result = Monostate],
   view |-> CASE which = "error" -> error(H.either, i)
              [] which = "data" -> data(H.either, i)
              [] OTHER -> NULL,
   flag |-> done(H.either[i])]

\* A call of done(), data() or error() on the Either i: the heap after the
\* call, the Borrower returned and the bool returned.  The three bodies
\* only read _result.
Access(H, i, which) ==
  [heap |-> H,
   view |-> CASE which = "error" -> error(H.either, i)
              [] which = "data" -> data(H.either, i)
              [] OTHER -> NULL,
   flag |-> done(H.either[i])]

\* ------------------------------------------------------------ destruction
RECURSIVE DestroyFrame(_, _)
RECURSIVE DestroyEither(_, _)
RECURSIVE DestroyAll(_, _)

\* ~EitherImpl(): if (_handle) _handle.destroy();
DestroyEither(H, i) ==
  LET h == H.either[i].handle
      H1 == IF h # NULL THEN DestroyFrame(H, h) ELSE H
  IN [H1 EXCEPT !.either[i] = FreeEither]

DestroyAll(H, S) ==
  IF S = {} THEN H
  ELSE LET i == CHOOSE j \in S : \A k \in S : j <= k
       IN DestroyAll(DestroyEither(H, i), S \ {i})

\* A destroy that frees nothing: the frame and its Eithers stay
DestroyFrame_Leak(H, h) == H

\* The end of a coroutine frame (coroutine_handle::destroy, or falling off
\* final_suspend): the Eithers that live in the frame are destroyed with it.
DestroyFrame(H, h) ==
  LET owned == {i \in EitherIds :
                  H.either[i].st = "live" /\ H.either[i].owner = h}
      H1 == [H EXCEPT !.frame[h] =
               IF H.frame[h].st = "suspended" THEN FreedFrame ELSE NoFrame]
  IN DestroyAll(H1, owned)

\* A move that does not re-parent the promise
setEither_Stale(F, h, i) == F

\* ------------------------------------------------------------------ moves
\* Promise::setEither
setEither(F, h, i) == [F EXCEPT ![h].either = i]

\* A move constructor that leaves the payload in the source
MoveConstruct_KeepSource(H, dst, src, owner) ==
  LET h == H.either[src].handle
      E1 == [H.either EXCEPT ![dst] =
               [st |-> "live", handle |-> h,
                result |-> H.either[src].result, owner |-> owner]]
      F1 == IF h # NULL THEN setEither(H.frame, h, dst) ELSE H.frame
      E2 == [E1 EXCEPT ![src].handle = NULL]
  IN [H EXCEPT !.either = E2, !.frame = F1,
           !.tracker = MovePayload(@, H.either[src].result)]

\* A move constructor that copies the handle and leaves it in the source
MoveConstruct_KeepHandle(H, dst, src, owner) ==
  LET h == H.either[src].handle
      E1 == [H.either EXCEPT ![dst] =
               [st |-> "live", handle |-> h,
                result |-> H.either[src].result, owner |-> owner]]
      F1 == IF h # NULL THEN setEither(H.frame, h, dst) ELSE H.frame
      E2 == [E1 EXCEPT ![src].result = Monostate]
  IN [H EXCEPT !.either = E2, !.frame = F1,
           !.tracker = MovePayload(@, H.either[src].result)]

\* EitherImpl(EitherImpl&& other), constructing slot dst for owner;
\* _result(std::move(other._result)) moves the payload
MoveConstruct(H, dst, src, owner) ==
  LET h == H.either[src].handle
      E1 == [H.either EXCEPT ![dst] =
               [st |-> "live", handle |-> h,
                result |-> H.either[src].result, owner |-> owner]]
      F1 == IF h # NULL THEN setEither(H.frame, h, dst) ELSE H.frame
      E2 == [E1 EXCEPT ![src].handle = NULL, ![src].result = Monostate]
  IN [H EXCEPT !.either = E2, !.frame = F1,
           !.tracker = MovePayload(@, H.either[src].result)]

\* A move assignment that leaves the payload in the source
MoveAssign_KeepSource(H, dst, src) ==
  IF dst = src THEN H
  ELSE
    LET H1 == IF H.either[dst].handle # NULL
              THEN DestroyFrame(H, H.either[dst].handle)
              ELSE H
        h == H1.either[src].handle
        E1 == [H1.either EXCEPT ![dst].handle = h]
        F1 == IF h # NULL THEN setEither(H1.frame, h, dst) ELSE H1.frame
        E2 == [E1 EXCEPT ![src].handle = NULL]
        E3 == [E2 EXCEPT ![dst].result = E2[src].result]
    IN [H1 EXCEPT !.either = E3, !.frame = F1,
              !.tracker = MovePayload(@, H.either[src].result)]

\* A move assignment without the test this != &other
MoveAssign_NoSelfCheck(H, dst, src) ==
  LET H1 == IF H.either[dst].handle # NULL
            THEN DestroyFrame(H, H.either[dst].handle)
            ELSE H
      h == H1.either[src].handle
      E1 == [H1.either EXCEPT ![dst].handle = h]
      F1 == IF h # NULL THEN setEither(H1.frame, h, dst) ELSE H1.frame
      E2 == [E1 EXCEPT ![src].handle = NULL]
      E3 == [E2 EXCEPT ![dst].result = E2[src].result]
      E4 == [E3 EXCEPT ![src].result = Monostate]
  IN [H1 EXCEPT !.either = E4, !.frame = F1,
            !.tracker = MovePayload(@, H.either[src].result)]

\* operator=(EitherImpl&& other); _result = std::move(other._result) moves
\* the payload
MoveAssign(H, dst, src) ==
  IF dst = src THEN H
  ELSE
    LET H1 == IF H.either[dst].handle # NULL
              THEN DestroyFrame(H, H.either[dst].handle)
              ELSE H
        h == H1.either[src].handle
        E1 == [H1.either EXCEPT ![dst].handle = h]
        F1 == IF h # NULL THEN setEither(H1.frame, h, dst) ELSE H1.frame
        E2 == [E1 EXCEPT ![src].handle = NULL]
        E3 == [E2 EXCEPT ![dst].result = E2[src].result]
        E4 == [E3 EXCEPT ![src].result = Monostate]
    IN [H1 EXCEPT !.either = E4, !.frame = F1,
              !.tracker = MovePayload(@, H.either[src].result)]


\* ---------------------------------------------------------------- strings
\* " \t\n\r\f\v"
Whitespace == {" ", "\t", "\n", "\r", "\f"}
Digits == <<"0", "1", "2", "3", "4", "5", "6", "7", "8", "9">>
IsDigit(c) == \E k \in 1..10 : Digits[k] = c
DigitValue(c) == (CHOOSE k \in 1..10 : Digits[k] = c) - 1

\* std::string::npos
npos == 0

\* str.find_first_not_of(" \t\n\r\f\v"), positions counted from 1
find_first_not_of(s) ==
  IF \E i \in 1..Len(s) : s[i] \notin Whitespace
  THEN CHOOSE i \in 1..Len(s) :
         s[i] \notin Whitespace /\ \A j \in 1..(i - 1) : s[j] \in Whitespace
  ELSE npos

\* str.find_last_not_of(" \t\n\r\f\v")
find_last_not_of(s) ==
  IF \E i \in 1..Len(s) : s[i] \notin Whitespace
  THEN CHOOSE i \in 1..Len(s) :
         s[i] \notin Whitespace /\ \A j \in (i + 1)..Len(s) : s[j] \in Whitespace
  ELSE npos

\* std::stod on strings of digits, signs, blanks and letters other than
\* those of "inf", "nan", exponents and hex prefixes: leading blanks are
\* skipped, an optional sign and the longest run of digits are converted,
\* the rest is ignored; without a digit std::invalid_argument is thrown.
SkipBlanks(s) ==
  IF find_first_not_of(s) = npos THEN <<>>
  ELSE SubSeq(s, find_first_not_of(s), Len(s))
Signed(s) == s # <<>> /\ s[1] \in {"-", "+"}
Unsigned(s) == IF Signed(s) THEN Tail(s) ELSE s
RECURSIVE DigitRun(_)
DigitRun(s) ==
  IF s # <<>> /\ IsDigit(s[1]) THEN <<s[1]>> \o DigitRun(Tail(s)) ELSE <<>>
RECURSIVE Decimal(_)
Decimal(d) ==
  IF d = <<>> THEN 0
  ELSE 10 * Decimal(SubSeq(d, 1, Len(d) - 1)) + DigitValue(d[Len(d)])
stodThrows(s) == DigitRun(Unsigned(SkipBlanks(s))) = <<>>
stod(s) ==
  LET b == SkipBlanks(s)
      v == Decimal(DigitRun(Unsigned(b)))
  IN IF Signed(b) /\ b[1] = "-" THEN 0 - v ELSE v

\* "Cannot parse '" + str + "' to double"
CannotParse(str) == [text |-> "Cannot parse '%' to double", arg |-> str]

\* ------------------------------------------------------------ the programs
\* One statement of a step, as the interpreter below executes it:
\*   await_call   co_await step(args)          (a temporary, rvalue)
\*   await_param  co_await std::move(param)    (rvalue)
\*   call_local   auto local = step(args)
\*   await_local  co_await local               (lvalue)
\*   await_foreign co_await AsyncFetch{...}
\*   return_data / return_str / return_error   co_return
\* and in a SimpleTask, which is not an Either-producing step:
\*   interop_call   auto local = co_await step(args)   (rvalue)
\*   interop_local  auto& ref = co_await local         (lvalue)
\*   task_return    co_return value
NoStmt ==
  [op |-> "none", fn |-> "", x |-> 0, y |-> 0, z |-> 0, fs |-> {},
   m |-> Message(""), s1 |-> <<>>, s2 |-> <<>>, loc |-> 0, void |-> FALSE,
   data |-> 0, str |-> <<>>, error |-> Message(""), trk |-> FALSE]

ReturnData(d) == [NoStmt EXCEPT !.op = "return_data", !.data = d]
ReturnStr(t) == [NoStmt EXCEPT !.op = "return_str", !.str = t]
ReturnError(e) == [NoStmt EXCEPT !.op = "return_error", !.error = e]
ReturnTracker(v) == [ReturnData(v) EXCEPT !.trk = TRUE]
AwaitParam == [NoStmt EXCEPT !.op = "await_param"]
AwaitLocal(k) == [NoStmt EXCEPT !.op = "await_local", !.loc = k]
AwaitForeign(t, k) == [NoStmt EXCEPT !.op = "await_foreign", !.str = t, !.loc = k]
Call(fn) == [NoStmt EXCEPT !.op = "await_call", !.fn = fn]
CallLocal(c, k) == [c EXCEPT !.op = "call_local", !.loc = k]
InteropCall(c, k) == [c EXCEPT !.op = "interop_call", !.loc = k]
InteropLocal(k) == [NoStmt EXCEPT !.op = "interop_local", !.loc = k]
TaskReturn(d) == [NoStmt EXCEPT !.op = "task_return", !.data = d]

\* The messages of chainedAwaitsFirstFails / chainedAwaitsMiddleFails
ChainMsg(i) ==
  IF i = 1 THEN Message("first failed") ELSE Message("middle failed")

\* returnData(start), returnData(a + 10), returnData(b + 100)
RECURSIVE Pow10(_)
Pow10(k) == IF k = 0 THEN 1 ELSE 10 * Pow10(k - 1)
\* Arguments computed from start alone, before any step has yielded
ChainArg_FromStart(f, i) == IF i = 1 THEN f.x ELSE f.x + Pow10(i - 1)

ChainArg(f, i) == IF i = 1 THEN f.x ELSE f.acc + Pow10(i - 1)

\* inline auto returnData(int x) { co_return x; }
returnData(f) == ReturnData(f.x)

\* inline auto returnError(std::string msg) { co_return msg; }
returnError(f) == ReturnError(f.m)

\* A validatePositive that tests x < 0 and lets zero through
validatePositive_Strict(f) ==
  IF f.x < 0 THEN ReturnError(Message("must be positive")) ELSE ReturnData(OK)

\* inline auto validatePositive(int x)
validatePositive(f) ==
  IF f.x <= 0 THEN ReturnError(Message("must be positive")) ELSE ReturnData(OK)

\* inline auto awaitAndAdd(Either<int, std::string> input, int delta)
awaitAndAdd(f) ==
  IF f.pc = 1 THEN AwaitParam ELSE ReturnData(f.acc + f.y)

\* chainedAwaitsAllSucceed / chainedAwaitsFirstFails /
\* chainedAwaitsMiddleFails with f.y awaits, those in f.fs failing
chainedAwaits(f) ==
  IF f.pc <= f.y
  THEN IF f.pc \in f.fs
       THEN [Call("returnError") EXCEPT !.m = ChainMsg(f.pc)]
       ELSE [Call("returnData") EXCEPT !.x = ChainArg(f, f.pc)]
  ELSE ReturnData(f.acc)

\* level1 .. level5 and level1Error .. level5Error: f.y is the level,
\* f.z the innermost level, f.fs # {} the Error variant
level(f) ==
  IF f.y = f.z
  THEN IF f.fs # {}
       THEN ReturnError(Message("deep error"))
       ELSE ReturnData(f.x + 1)
  ELSE IF f.pc = 1
       THEN [Call("level") EXCEPT !.x = f.x, !.y = f.y + 1, !.z = f.z,
                                  !.fs = f.fs]
       ELSE ReturnData(f.acc + 1)

\* inline auto computeWithValidation(int x)
computeWithValidation(f) ==
  IF f.pc = 1
  THEN [Call("validatePositive") EXCEPT !.x = f.x, !.void = TRUE]
  ELSE ReturnData(f.x * 2)

\* constexpr values of the MoveTracker helpers: co_return 42, value + 10
kPlainResult == 42
kTrackerDelta == 10

\* inline auto returnMoveTracker(int x) { co_return MoveTracker{x}; }
returnMoveTracker(f) == ReturnTracker(f.x)

\* inline auto awaitMoveTracker(int x):
\*   MoveTracker val = co_await returnMoveTracker(x);
\*   co_return MoveTracker{val.value + 10};
awaitMoveTracker(f) ==
  IF f.pc = 1
  THEN [Call("returnMoveTracker") EXCEPT !.x = f.x]
  ELSE ReturnTracker(f.acc + kTrackerDelta)

\* inline auto returnIntWithMoveTrackerError(bool shouldFail)
\* (shouldFail is f.x # 0)
returnIntWithMoveTrackerError(f) ==
  IF f.x # 0 THEN ReturnError(TrackerMessage) ELSE ReturnData(kPlainResult)

\* std::to_string(int) of a number that is not negative
RECURSIVE to_string(_)
to_string(n) ==
  IF n < 10 THEN <<Digits[n + 1]>>
  ELSE to_string(n \div 10) \o <<Digits[(n % 10) + 1]>>

\* std::string("Error at depth " + std::to_string(depth))
ErrorAtDepth(depth) == [text |-> "Error at depth %", arg |-> to_string(depth)]

\* recursiveCoawait that tests depth before errorAt
recursiveCoawait_DepthFirst(f) ==
  IF f.x = 0 THEN ReturnData(f.x)
  ELSE IF f.y = 0 THEN ReturnError(ErrorAtDepth(f.x))
  ELSE IF f.pc = 1
  THEN [Call("recursiveCoawait") EXCEPT !.x = f.x - 1, !.y = f.y - 1]
  ELSE ReturnData(f.acc)

\* Either<int, std::string> recursiveCoawait(int depth, int errorAt)
\* (depth is x, errorAt y, result acc)
recursiveCoawait(f) ==
  IF f.y = 0 THEN ReturnError(ErrorAtDepth(f.x))
  ELSE IF f.x = 0 THEN ReturnData(f.x)
  ELSE IF f.pc = 1
  THEN [Call("recursiveCoawait") EXCEPT !.x = f.x - 1, !.y = f.y - 1]
  ELSE ReturnData(f.acc)

\* int recursiveThrow(int depth, int errorAt): the value returned, or the
\* std::string thrown
RECURSIVE recursiveThrow(_, _)
recursiveThrow(depth, errorAt) ==
  IF errorAt = 0
  THEN [thrown |-> TRUE, value |-> 0, what |-> ErrorAtDepth(depth)]
  ELSE IF depth = 0
  THEN [thrown |-> FALSE, value |-> depth, what |-> Message("")]
  ELSE recursiveThrow(depth - 1, errorAt - 1)

\* std::pair<int, std::string> recursiveExplicit(int depth, int errorAt)
RECURSIVE recursiveExplicit(_, _)
recursiveExplicit(depth, errorAt) ==
  IF errorAt = 0
  THEN [first |-> 0 - 1, second |-> ErrorAtDepth(depth)]
  ELSE IF depth = 0
  THEN [first |-> depth, second |-> Message("")]
  ELSE LET result == recursiveExplicit(depth - 1, errorAt - 1)
       IN IF result.first < 0
          THEN [first |-> 0 - 1, second |-> result.second]
          ELSE result

\* Overload resolution of Promise::await_transform in a step whose Error
\* type is ERROR, for an operand that is an Either with Error type
\* otherError, or that is no Either: the overloads taking
\* EitherImpl<OTHER, ERROR>&& / & are viable only for the step's own ERROR,
\* the unconstrained template await_transform(T&&) is viable for every
\* operand
await_transform_overload(isEither, otherError, ERROR) ==
  IF isEither /\ otherError = ERROR THEN "PropagatingAwaiter"
  ELSE "pass-through"

\* co_await step(args) where the step returns an Either with Error type
\* otherError, in a step whose Error type is ERROR: the PropagatingAwaiter,
\* or the operand handed through, whose operator co_await() gives the
\* InteropAwaiter
AwaitEither(c, otherError, ERROR) ==
  IF await_transform_overload(TRUE, otherError, ERROR) = "PropagatingAwaiter"
  THEN c
  ELSE InteropCall(c, 1)

\* auto composeMismatched(bool shouldFail) -> Either<int, std::string>
\*   { auto r = co_await returnIntWithMoveTrackerError(shouldFail);
\*     co_return 42; }
\* a step with Error type std::string that composes an
\* Either<int, MoveTracker>
composeMismatched(f) ==
  IF f.pc = 1
  THEN AwaitEither([Call("returnIntWithMoveTrackerError") EXCEPT !.x = f.x],
                   "MoveTracker", "std::string")
  ELSE ReturnData(kPlainResult)

\* inline auto trim(const std::string& str) -> Result<std::string>
trim(f) ==
  IF find_first_not_of(f.s1) = npos
  THEN ReturnError(Message("String is empty after trimming"))
  ELSE ReturnStr(SubSeq(f.s1, find_first_not_of(f.s1), find_last_not_of(f.s1)))

\* inline auto parseDouble(std::string str) -> Result<double>
\* (trimmed1 refers to the payload of trimEither, local 1)
parseDouble(E, f) ==
  CASE f.pc = 1 -> CallLocal([Call("trim") EXCEPT !.s1 = f.s1], 1)
    [] f.pc = 2 -> AwaitLocal(1)
    [] OTHER -> IF stodThrows(E[f.loc1].result.str)
                THEN ReturnError(CannotParse(f.s1))
                ELSE ReturnData(stod(E[f.loc1].result.str))

\* throw, or a call that throws, in the body of a step and outside any
\* try block
Throw == [NoStmt EXCEPT !.op = "throw"]

\* A step that parses without a try block:
\*   Result<double> parseUnchecked(std::string str) { co_return std::stod(str); }
parseUnchecked(f) ==
  IF stodThrows(f.s1) THEN Throw ELSE ReturnData(stod(f.s1))

\* and a step that composes it:
\*   Result<double> awaitUnchecked(std::string str)
\*   { double v = co_await parseUnchecked(str); co_return v; }
awaitUnchecked(f) ==
  IF f.pc = 1 THEN [Call("parseUnchecked") EXCEPT !.s1 = f.s1]
  ELSE ReturnData(f.acc)

\* divide with its operands exchanged in the quotient
divide_Swapped(f) ==
  IF f.y = 0
  THEN ReturnError(Message("Cannot divide by 0"))
  ELSE ReturnData(f.y \div f.x)

\* inline auto divide(double numerator, double denominator)
\* (the quotients of the model's inputs are whole numbers)
divide(f) ==
  IF f.y = 0
  THEN ReturnError(Message("Cannot divide by 0"))
  ELSE ReturnData(f.x \div f.y)

\* divideStr without "if (auto err = yEither.error()) co_return *err;":
\* the second operand is used unchecked
divideStr_NoCheck(E, f) ==
  CASE f.pc = 1 -> CallLocal([Call("parseDouble") EXCEPT !.s1 = f.s1], 1)
    [] f.pc = 2 -> AwaitLocal(1)
    [] f.pc = 3 -> CallLocal([Call("parseDouble") EXCEPT !.s1 = f.s2], 2)
    [] f.pc = 4 -> [Call("divide") EXCEPT !.x = f.acc,
                                          !.y = E[f.loc2].result.data]
    [] OTHER -> ReturnData(f.acc)

\* inline auto divideStr(numeratorStr, denominatorStr) -> Result<double>
\* (xEither is local 1, yEither local 2, x is acc)
divideStr(E, f) ==
  CASE f.pc = 1 -> CallLocal([Call("parseDouble") EXCEPT !.s1 = f.s1], 1)
    [] f.pc = 2 -> AwaitLocal(1)
    [] f.pc = 3 -> CallLocal([Call("parseDouble") EXCEPT !.s1 = f.s2], 2)
    [] f.pc = 4 -> IF E[f.loc2].result.alt = "error"
                   THEN ReturnError(E[f.loc2].result.error)
                   ELSE [Call("divide") EXCEPT !.x = f.acc,
                                               !.y = E[f.loc2].result.data]
    [] OTHER -> ReturnData(f.acc)

\* inline auto asyncDivideStr(numeratorStr, denominatorStr)
\* (fetchedNumerator is t1, fetchedDenominator t2)
asyncDivideStr(f) ==
  CASE f.pc = 1 -> AwaitForeign(f.s1, 1)
    [] f.pc = 2 -> AwaitForeign(f.s2, 2)
    [] f.pc = 3 -> [Call("divideStr") EXCEPT !.s1 = f.t1, !.s2 = f.t2]
    [] OTHER -> ReturnData(f.acc)

\* constexpr double kMultiplier = 500.0; constexpr double kErrorSentinel = -1.0;
kMultiplier == 500
kErrorSentinel == 0 - 1

\* auto computeInTask(std::string a, std::string b) -> SimpleTask<double>
\* (result1 is local 1, task2 local 2, result2 the reference ref)
computeInTask(E, f) ==
  CASE f.pc = 1 ->
         InteropCall([Call("divideStr") EXCEPT !.s1 = f.s1, !.s2 = f.s2], 1)
    [] f.pc = 2 ->
         CallLocal([Call("divideStr") EXCEPT !.s1 = f.s2, !.s2 = f.s1], 2)
    [] f.pc = 3 -> InteropLocal(2)
    [] OTHER ->
         IF ~done(E[f.loc1]) \/ ~done(E[f.ref])
         THEN TaskReturn(kErrorSentinel)
         ELSE IF error(E, f.loc1) # NULL \/ error(E, f.ref) # NULL
         THEN TaskReturn(kErrorSentinel)
         ELSE IF data(E, f.loc1) # NULL /\ data(E, f.ref) # NULL
         THEN TaskReturn(E[f.loc1].result.data * kMultiplier
                           * E[f.ref].result.data)
         ELSE TaskReturn(kErrorSentinel)

\* A SimpleTask that awaits Either<Void, std::string> steps, a temporary
\* and then a local, and returns its argument:
\*   co_await validatePositive(x);
\*   auto v = validatePositive(x);  co_await v;  co_return x;
awaitVoidInTask(f) ==
  CASE f.pc = 1 ->
         InteropCall([Call("validatePositive") EXCEPT !.x = f.x,
                                                      !.void = TRUE], 1)
    [] f.pc = 2 -> CallLocal([Call("validatePositive") EXCEPT !.x = f.x], 2)
    [] f.pc = 3 -> [InteropLocal(2) EXCEPT !.void = TRUE]
    [] OTHER -> TaskReturn(f.x)

Stmt(E, f) ==
  CASE f.fn = "returnData" -> returnData(f)
    [] f.fn = "returnError" -> returnError(f)
    [] f.fn = "validatePositive" -> validatePositive(f)
    [] f.fn = "awaitAndAdd" -> awaitAndAdd(f)
    [] f.fn = "chainedAwaits" -> chainedAwaits(f)
    [] f.fn = "level" -> level(f)
    [] f.fn = "computeWithValidation" -> computeWithValidation(f)
    [] f.fn = "trim" -> trim(f)
    [] f.fn = "parseDouble" -> parseDouble(E, f)
    [] f.fn = "divide" -> divide(f)
    [] f.fn = "divideStr" -> divideStr(E, f)
    [] f.fn = "asyncDivideStr" -> asyncDivideStr(f)
    [] f.fn = "computeInTask" -> computeInTask(E, f)
    [] f.fn = "awaitVoidInTask" -> awaitVoidInTask(f)
    [] f.fn = "returnMoveTracker" -> returnMoveTracker(f)
    [] f.fn = "awaitMoveTracker" -> awaitMoveTracker(f)
    [] f.fn = "returnIntWithMoveTrackerError" ->
         returnIntWithMoveTrackerError(f)
    [] f.fn = "recursiveCoawait" -> recursiveCoawait(f)
    [] f.fn = "composeMismatched" -> composeMismatched(f)
    [] f.fn = "parseUnchecked" -> parseUnchecked(f)
    [] f.fn = "awaitUnchecked" -> awaitUnchecked(f)
    [] OTHER -> NoStmt

\* The frame of a call: the arguments are copied into it and the body is at
\* its first statement (initial_suspend never suspends)
CallFrame(c, r) ==
  [NoFrame EXCEPT !.st = "active", !.fn = c.fn, !.pc = 1, !.ph = "call",
                  !.x = c.x, !.y = c.y, !.z = c.z, !.fs = c.fs, !.m = c.m,
                  !.s1 = c.s1, !.s2 = c.s2, !.either = r, !.origin = r]

\* asyncDivideStr(" 42", "7"), ("100", "0"), ("abc", "5"), ("50", "2")
AsyncInputs ==
  {<< <<" ", "4", "2">>, <<"7">> >>,
   << <<"1", "0", "0">>, <<"0">> >>,
   << <<"a", "b", "c">>, <<"5">> >>,
   << <<"5", "0">>, <<"2">> >>}

\* The calls the driver makes to the steps that run to completion
DriverCalls ==
  {[Call("returnData") EXCEPT !.x = x] : x \in DataInputs}
  \cup {[Call("returnError") EXCEPT !.m = m] : m \in ErrorInputs}
  \cup UNION {{[Call("chainedAwaits") EXCEPT !.x = x, !.y = n, !.fs = fs] :
                   x \in DataInputs, fs \in SUBSET (1..n)} : n \in 1..MaxChain}
  \cup {[Call("level") EXCEPT !.x = x, !.y = 1, !.z = d, !.fs = fs] :
          x \in DataInputs, d \in 1..MaxDepth, fs \in {{}, {1}}}
  \cup {[Call("computeWithValidation") EXCEPT !.x = x] : x \in DataInputs}

\* tasks.push_back(asyncDivideStr(a, b)): the calls to the step that
\* suspends
AsyncCalls ==
  {[Call("asyncDivideStr") EXCEPT !.s1 = p[1], !.s2 = p[2]] : p \in AsyncInputs}

\* computeInTask("10", "0"), ("abc", "5") and a pair whose quotients are
\* whole numbers both ways
TaskInputs ==
  {<< <<"1", "0">>, <<"0">> >>,
   << <<"a", "b", "c">>, <<"5">> >>,
   << <<"7">>, <<"7">> >>}

\* auto task1 = divideStr("10.2", "5");  the direct calls of the example
StrCalls ==
  {[Call("divideStr") EXCEPT !.s1 = p[1], !.s2 = p[2]] : p \in AsyncInputs}

\* The scenario of the example chain: divide(10, 2), divide(10, 0),
\* parseDouble("10"), parseDouble("0"), parseDouble("abc"),
\* divideStr("10", "2"), divideStr("10", "0"), divideStr("abc", "5") and the
\* direct calls of testBasicDivision
ExampleCalls ==
  {[Call("divide") EXCEPT !.x = 10, !.y = y] : y \in {0, 2}}
  \cup {[Call("parseDouble") EXCEPT !.s1 = t] :
          t \in {<<"1", "0">>, <<"0">>, <<"a", "b", "c">>}}
  \cup {[Call("divideStr") EXCEPT !.s1 = <<"1", "0">>, !.s2 = t] :
          t \in {<<"2">>, <<"0">>}}
  \cup StrCalls

\* The largest depth in which an error is placed at the bottom of the
\* recursion: benchmarkDriver(10, 3) fails at depth 7
kDeepStart == 10

\* benchmarkDriver(depth, errorAt): the boundary cases (0, 1), (1, 0),
\* (0, 0), (n, n), (n, n + 1), and errors raised at a depth of two digits
RecursiveCalls ==
  {[Call("recursiveCoawait") EXCEPT !.x = d, !.y = e] :
     d \in 0..MaxDepth, e \in 0..(MaxDepth + MaxDepth)}
  \cup {[Call("recursiveCoawait") EXCEPT !.x = kDeepStart + e, !.y = e] :
          e \in 0..MaxDepth}

\* composeMismatched(shouldFail), and returnIntWithMoveTrackerError called
\* directly
MismatchCalls ==
  {[Call(fn) EXCEPT !.x = x] :
     fn \in {"composeMismatched", "returnIntWithMoveTrackerError"},
     x \in DataInputs}

\* returnMoveTracker(42), awaitMoveTracker(32),
\* returnIntWithMoveTrackerError(true)
TrackerCalls ==
  {[Call(fn) EXCEPT !.x = x] :
     fn \in {"returnMoveTracker", "awaitMoveTracker",
             "returnIntWithMoveTrackerError"},
     x \in DataInputs}

\* The SimpleTask coroutines the driver creates
TaskCalls ==
  {[Call("computeInTask") EXCEPT !.s1 = p[1], !.s2 = p[2]] : p \in TaskInputs}
  \cup {[Call("awaitVoidInTask") EXCEPT !.x = x] : x \in DataInputs}

\* An await_transform that answers for the producer: always ready
await_transform_Ready(awaitable) == [awaitable EXCEPT !.ready = TRUE]

\* ---------------------------------------------------------- the promise
\* await_transform(T&& awaitable) for a T that is not an Either:
\* return std::forward<T>(awaitable)
await_transform(awaitable) == awaitable

\* A _setDataAndNullifyHandle that stores the Value and keeps the handle
setDataAndNullifyHandle_KeepHandle(E, i, r) == [E EXCEPT ![i].result = r]

\* A _setDataAndNullifyHandle that detaches the handle and stores nothing
setDataAndNullifyHandle_NoResult(E, i, r) == [E EXCEPT ![i].handle = NULL]

\* _setDataAndNullifyHandle (r is a variant holding DATA)
setDataAndNullifyHandle(E, i, r) ==
  [E EXCEPT ![i].result = r, ![i].handle = NULL]

\* A _setErrorAndNullifyHandle that keeps the handle
setErrorAndNullifyHandle_KeepHandle(E, i, e) ==
  [E EXCEPT ![i].result = ErrorAlt(e)]

\* _setErrorAndNullifyHandle
setErrorAndNullifyHandle(E, i, e) ==
  [E EXCEPT ![i].result = ErrorAlt(e), ![i].handle = NULL]

\* A return_value that drops the value: the frame ends and the Either
\* never learns the outcome
CoReturn_NoDeposit(H, h, s) ==
  DestroyFrame([H EXCEPT !.either[H.frame[h].either].handle = NULL], h)

\* Promise::return_value(DATA) / return_value(ERROR), then final_suspend
\* (suspend_never): the frame ends
CoReturn(H, h, s) ==
  LET r == H.frame[h].either
      E1 == CASE s.op = "return_data" ->
                   setDataAndNullifyHandle(H.either, r,
                       [DataAlt(s.data) EXCEPT !.trk = s.trk])
              [] s.op = "return_str" ->
                   setDataAndNullifyHandle(H.either, r, StrAlt(s.str))
              [] OTHER -> setErrorAndNullifyHandle(H.either, r, s.error)
      T1 == IF s.op = "return_error" THEN MovePayload(H.tracker, ErrorAlt(s.error))
            ELSE IF s.trk THEN MoveTracker_move(H.tracker) ELSE H.tracker
  IN DestroyFrame([H EXCEPT !.either = E1, !.tracker = T1], h)

\* await_ready() that tests done() instead of data()
await_ready_Done(E, a) == E[a].result.alt # "monostate"

\* ------------------------------------------------- PropagatingAwaiter
\* await_ready(): static_cast<bool>(_awaitableEither.data())
await_ready(E, a) == data(E, a) # NULL

\* await_suspend() that hands over the Error after it was moved from
await_suspend_MovedFrom(H, h, a) ==
  LET r == H.frame[h].either
      E1 == setErrorAndNullifyHandle(H.either, r, Message(""))
  IN DestroyFrame([H EXCEPT !.either = E1,
                            !.tracker = MovePayload(@, H.either[a].result)], h)

\* await_suspend() that hands the Error over and forgets h.destroy(): the
\* awaiting frame stays
await_suspend_KeepFrame(H, h, a) ==
  [H EXCEPT !.either = setErrorAndNullifyHandle(H.either, H.frame[h].either,
                                                H.either[a].result.error),
            !.tracker = MovePayload(@, H.either[a].result)]

\* await_suspend(h) with the Error present: the Error is moved into
\* _returnEither (the promise's *_either at await_transform) and the
\* awaiting frame is destroyed
await_suspend(H, h, a) ==
  LET r == H.frame[h].either
      E1 == setErrorAndNullifyHandle(H.either, r, H.either[a].result.error)
  IN DestroyFrame([H EXCEPT !.either = E1,
                            !.tracker = MovePayload(@, H.either[a].result)], h)

\* await_resume() that yields nothing
await_resume_NoYield(H, h, a, s) ==
  LET H1 == IF s.op = "await_call" THEN DestroyEither(H, a) ELSE H
  IN [H1 EXCEPT !.frame[h].tmp = NULL,
                !.frame[h].pc = @ + 1, !.frame[h].ph = "call"]

\* await_resume() that consumes an lvalue as if it were an rvalue
await_resume_Consume(H, h, a, s) ==
  LET v == IF s.void THEN H.frame[h].acc ELSE H.either[a].result.data
      H0 == IF s.void THEN H
            ELSE [H EXCEPT !.tracker = MovePayload(@, H.either[a].result),
                           !.either[a].result = Monostate]
      H1 == IF s.op = "await_call" THEN DestroyEither(H0, a) ELSE H0
  IN [H1 EXCEPT !.frame[h].acc = v, !.frame[h].tmp = NULL,
                !.frame[h].pc = @ + 1, !.frame[h].ph = "call"]

\* await_resume() of an rvalue that returns *d instead of std::move(*d):
\* the value is copied out
await_resume_Copy(H, h, a, s) ==
  LET v == IF s.void THEN H.frame[h].acc ELSE H.either[a].result.data
      H0 == IF s.void \/ s.op = "await_local" THEN H
            ELSE [H EXCEPT !.tracker = CopyPayload(@, H.either[a].result)]
      H1 == IF s.op = "await_call" THEN DestroyEither(H0, a) ELSE H0
  IN [H1 EXCEPT !.frame[h].acc = v, !.frame[h].tmp = NULL,
                !.frame[h].pc = @ + 1, !.frame[h].ph = "call"]

\* await_resume(): nothing for Void, otherwise the value of the awaited
\* Either (moved out of an rvalue, a reference into an lvalue); a temporary
\* operand is destroyed at the end of the statement
await_resume(H, h, a, s) ==
  LET v == IF s.void THEN H.frame[h].acc ELSE H.either[a].result.data
      H0 == IF s.void \/ s.op = "await_local" THEN H
            ELSE [H EXCEPT !.tracker = MovePayload(@, H.either[a].result),
                           !.either[a].result = MovedFromPayload(@)]
      H1 == IF s.op = "await_call" THEN DestroyEither(H0, a) ELSE H0
  IN [H1 EXCEPT !.frame[h].acc = v, !.frame[h].tmp = NULL,
                !.frame[h].pc = @ + 1, !.frame[h].ph = "call"]

\* An InteropAwaiter that is ready only when the Either holds a Value, as
\* the PropagatingAwaiter is
interop_await_ready_Propagating(E, a) == data(E, a) # NULL

\* ----------------------------------------------------- InteropAwaiter
\* await_ready(): return true
interop_await_ready(E, a) == TRUE

\* await_suspend(std::coroutine_handle<>) noexcept {}: nothing is done with
\* the handle, the consumer h stays suspended
interop_await_suspend(H, h, a) == [H EXCEPT !.frame[h].st = "stuck"]

\* await_resume() of frame h on the Either a, statement s; d is the slot of
\* the object the await expression yields, when it yields one by value:
\*   Void:    nothing is yielded
\*   lvalue:  return _awaitableEither  (a reference: the local ref)
\*   rvalue:  return std::move(_awaitableEither)  (a new Either, local
\*            s.loc, move-constructed from the temporary)
\* a temporary operand is destroyed at the end of the statement
interop_await_resume(H, h, a, s, d) ==
  LET H1 == IF s.void \/ s.op = "interop_local" THEN H
            ELSE MoveConstruct(H, d, a, h)
      H2 == IF s.op = "interop_call" THEN DestroyEither(H1, a) ELSE H1
      F1 == CASE s.void -> H2.frame
              [] s.op = "interop_local" -> [H2.frame EXCEPT ![h].ref = a]
              [] s.loc = 1 -> [H2.frame EXCEPT ![h].loc1 = d]
              [] OTHER -> [H2.frame EXCEPT ![h].loc2 = d]
  IN [H2 EXCEPT !.frame = [F1 EXCEPT ![h].tmp = NULL, ![h].pc = @ + 1,
                                     ![h].ph = "call"]]

\* SimpleTask::promise_type::return_value(T value) { result = std::move(value); }
\* and final_suspend (suspend_always): the frame stays, with its locals
return_value_Task(F, h, v) ==
  [F EXCEPT ![h].has = TRUE, ![h].val = v, ![h].st = "final"]

\* ------------------------------------------------------------- allocation
Heap == [either |-> either, frame |-> frame, tracker |-> tracker]

HasFreeEither(E) == \E i \in EitherIds : E[i].st = "free"
NewEither(E) ==
  CHOOSE i \in EitherIds :
    E[i].st = "free" /\ \A j \in EitherIds : E[j].st = "free" => i <= j

HasFreeFrame(F) == \E h \in FrameIds : F[h].st = "none"
NewFrame(F) ==
  CHOOSE h \in FrameIds :
    F[h].st = "none" /\ \A g \in FrameIds : F[g].st = "none" => h <= g

DriverOwned(i) == either[i].st = "live" /\ either[i].owner = DRIVER

\* The driver runs between the steps: nothing is on the call stack
Idle == fault = "none" /\ stack = <<>>

\* The driver has room for one more variable
DriverRoom ==
  /\ HasFreeEither(either)
  /\ Cardinality({i \in EitherIds : DriverOwned(i)}) < MaxDriver

Top == stack[Len(stack)]
Pop == SubSeq(stack, 1, Len(stack) - 1)
Running(h) == fault = "none" /\ stack # <<>> /\ Top = h

\* The last operation of the driver: its operands, the source as it was
\* before the operation, and what the destination held
NoOp ==
  [op |-> "none", src |-> NULL, dst |-> NULL, pre |-> FreeEither,
   preDst |-> "free", call |-> NoStmt, v |-> 0, m |-> Message(""),
   origin |-> NULL]

Kind(e) == IF e.handle # NULL THEN "pending" ELSE e.result.alt

\* ------------------------------------------------------------------- Init
Init ==
  /\ either = [i \in EitherIds |-> FreeEither]
  /\ frame = [h \in FrameIds |-> NoFrame]
  /\ stack = <<>>
  /\ fault = "none"
  /\ lastOp = NoOp
  /\ ncalls = 0
  /\ tracker = NoCounts

\* ------------------------------------------------- driver: value mode ops
\* Either<int, std::string> e{v};
ConstructData ==
  /\ Idle /\ DriverRoom
  /\ \E v \in DataInputs :
       LET i == NewEither(either) IN
       /\ either' = [either EXCEPT ![i] = EitherFromData(v, DRIVER)]
       /\ lastOp' = [NoOp EXCEPT !.op = "ConstructData", !.dst = i, !.v = v]
  /\ UNCHANGED <<frame, stack, fault, ncalls, tracker>>

\* Either<int, std::string> e{std::string(msg)};
ConstructError ==
  /\ Idle /\ DriverRoom
  /\ \E m \in ErrorInputs :
       LET i == NewEither(either) IN
       /\ either' = [either EXCEPT ![i] = EitherFromError(m, DRIVER)]
       /\ lastOp' = [NoOp EXCEPT !.op = "ConstructError", !.dst = i, !.m = m]
  /\ UNCHANGED <<frame, stack, fault, ncalls, tracker>>

\* Either<int, std::string> f{std::move(e)};
DriverMoveConstruct ==
  /\ Idle /\ DriverRoom /\ tracker.s_moveCount < MaxMoves
  /\ \E s \in EitherIds :
       /\ DriverOwned(s)
       /\ LET d == NewEither(either)
              H == MoveConstruct(Heap, d, s, DRIVER) IN
          /\ either' = H.either
          /\ frame' = H.frame
          /\ tracker' = H.tracker
          /\ lastOp' = [NoOp EXCEPT !.op = "MoveConstruct", !.src = s,
                                    !.dst = d, !.pre = either[s]]
  /\ UNCHANGED <<stack, fault, ncalls>>

\* dst = std::move(src);   (src and dst may be the same object)
DriverMoveAssign ==
  /\ Idle /\ tracker.s_moveCount < MaxMoves
  /\ \E s \in EitherIds, d \in EitherIds :
       /\ DriverOwned(s) /\ DriverOwned(d)
       /\ LET H == MoveAssign(Heap, d, s) IN
          /\ either' = H.either
          /\ frame' = H.frame
          /\ tracker' = H.tracker
          /\ lastOp' = [NoOp EXCEPT !.op = "MoveAssign", !.src = s, !.dst = d,
                                    !.pre = either[s],
                                    !.preDst = Kind(either[d])]
  /\ UNCHANGED <<stack, fault, ncalls>>

\* Either<MoveTracker, std::string> src{MoveTracker{v}};  and
\* Either<int, MoveTracker> errSrc{MoveTracker{-1}};  the constructor moves
\* its by-value parameter into the variant
ConstructTracker ==
  /\ Idle /\ DriverRoom /\ tracker.s_moveCount < MaxMoves
  /\ \E e \in {[EitherFromData(v, DRIVER) EXCEPT !.result.trk = TRUE] :
                  v \in DataInputs}
             \cup {EitherFromError(TrackerMessage, DRIVER)} :
       LET i == NewEither(either) IN
       /\ either' = [either EXCEPT ![i] = e]
       /\ tracker' = MovePayload(tracker, e.result)
       /\ lastOp' = [NoOp EXCEPT !.op = "ConstructTracker", !.dst = i,
                                 !.pre = e]
  /\ UNCHANGED <<frame, stack, fault, ncalls>>

\* MoveTracker::reset();
Reset ==
  /\ Idle
  /\ tracker' = NoCounts
  /\ lastOp' = [NoOp EXCEPT !.op = "Reset"]
  /\ UNCHANGED <<either, frame, stack, fault, ncalls>>

\* INT_MAX and INT_MIN of a 32-bit int
INT_MAX == 2147483647
INT_MIN == 0 - INT_MAX - 1

\* LargeStruct large;  large.values.fill(42);  large.name = "large structure";
\* (the 100 values, then the name)
kLargeValues == 100
LargeStruct == [k \in 1..kLargeValues |-> "42"] \o <<"large structure">>

\* The payloads of the boundary tests: INT_MIN and INT_MAX, the empty
\* string as Value and as Error, and the large aggregate
BoundaryPayloads ==
  {DataAlt(INT_MIN), DataAlt(INT_MAX), StrAlt(<<>>), ErrorAlt(Message("")),
   StrAlt(LargeStruct)}

\* Either<int, std::string> minE{INT_MIN};  Either<std::string, int>
\* dataE{std::string("")};  Either<int, std::string> errorE{std::string("")};
\* Either<LargeStruct, std::string> e{std::move(large)};
ConstructBoundary ==
  /\ Idle /\ DriverRoom
  /\ \E r \in BoundaryPayloads :
       LET i == NewEither(either)
           e == IF r.alt = "error" THEN EitherFromError(r.error, DRIVER)
                ELSE IF r.str = <<>> THEN EitherFromData(r.data, DRIVER)
                ELSE [EitherFromData(r.data, DRIVER) EXCEPT !.result.str = r.str]
       IN /\ either' = [either EXCEPT ![i] = e]
          /\ lastOp' = [NoOp EXCEPT !.op = "ConstructBoundary", !.dst = i,
                                    !.pre = [e EXCEPT !.result = r]]
  /\ UNCHANGED <<frame, stack, fault, ncalls, tracker>>

Accessors == {"done", "data", "error"}

\* e.done();  e.data();  e.error();  called by the driver on its Either,
\* in any order and any number of times.  The record of the call keeps the
\* Either as it was, the answer, and the call before it.
DriverRead ==
  /\ Idle
  /\ \E i \in EitherIds, which \in Accessors :
       /\ DriverOwned(i)
       /\ \E A \in {Access(Heap, i, which)} :
            /\ either' = A.heap.either
            /\ frame' = A.heap.frame
            /\ tracker' = A.heap.tracker
            /\ lastOp' = [NoOp EXCEPT !.op = which, !.src = i,
                                      !.pre = either[i], !.dst = A.view,
                                      !.v = IF A.flag THEN 1 ELSE 0,
                                      !.preDst = lastOp.op,
                                      !.origin = lastOp.src]
  /\ UNCHANGED <<stack, fault, ncalls>>

\* An Either of the driver goes out of scope
DriverDestroy ==
  /\ Idle
  /\ \E i \in EitherIds :
       /\ DriverOwned(i)
       /\ LET H == DestroyEither(Heap, i) IN
          /\ either' = H.either
          /\ frame' = H.frame
          /\ tracker' = H.tracker
          /\ lastOp' = [NoOp EXCEPT !.op = "Destroy", !.src = i]
  /\ UNCHANGED <<stack, fault, ncalls>>

\* ------------------------------------------------------ driver: the calls
\* auto r = step(args);  get_return_object() builds the Either bound to the
\* new frame in the caller's variable, and the body starts at once
StartCall(c) ==
  /\ LET h == NewFrame(frame)
         r == NewEither(either) IN
     /\ either' = [either EXCEPT ![r] = EitherFromHandle(h, DRIVER)]
     /\ frame' = [frame EXCEPT ![h] = CallFrame(c, r)]
     /\ stack' = <<h>>
     /\ lastOp' = [NoOp EXCEPT !.op = "Call", !.src = h, !.dst = r,
                               !.call = c]
  /\ ncalls' = ncalls + 1
  /\ UNCHANGED <<fault, tracker>>

DriverCall ==
  /\ Idle /\ DriverRoom /\ HasFreeFrame(frame) /\ ncalls < MaxCalls
  /\ \E c \in DriverCalls : StartCall(c)

\* auto task = asyncDivideStr(a, b);  the step suspends at its first
\* co_await AsyncFetch and the driver gets a pending Either
DriverCallAsync ==
  /\ Idle /\ DriverRoom /\ HasFreeFrame(frame) /\ ncalls < MaxCalls
  /\ \E c \in AsyncCalls : StartCall(c)

\* auto task1 = divideStr(a, b);
DriverCallStr ==
  /\ Idle /\ DriverRoom /\ HasFreeFrame(frame) /\ ncalls < MaxCalls
  /\ \E c \in StrCalls : StartCall(c)

\* auto task2 = divideStr(".2", "0");  and the other calls of the example
DriverCallExample ==
  /\ Idle /\ DriverRoom /\ HasFreeFrame(frame) /\ ncalls < MaxCalls
  /\ \E c \in ExampleCalls : StartCall(c)

\* auto resultCoawait = recursiveCoawait(depth, errorAt);
DriverCallRecursive ==
  /\ Idle /\ DriverRoom /\ HasFreeFrame(frame) /\ ncalls < MaxCalls
  /\ \E c \in RecursiveCalls : StartCall(c)

\* auto r = composeMismatched(x);
DriverCallMismatch ==
  /\ Idle /\ DriverRoom /\ HasFreeFrame(frame) /\ ncalls < MaxCalls
  /\ \E c \in MismatchCalls : StartCall(c)

\* auto result = returnMoveTracker(42);  and the other MoveTracker steps
DriverCallTracker ==
  /\ Idle /\ DriverRoom /\ HasFreeFrame(frame) /\ ncalls < MaxCalls
  /\ \E c \in TrackerCalls : StartCall(c)

\* auto r = awaitAndAdd(std::move(e), delta);  the parameter is moved into
\* the frame (through the parameter object, which is left Empty and dies
\* without effect)
DriverCallAwaitAndAdd ==
  /\ Idle /\ DriverRoom /\ HasFreeFrame(frame) /\ ncalls < MaxCalls
  /\ Cardinality({i \in EitherIds : either[i].st = "free"}) >= 2
  /\ \E s \in EitherIds :
       /\ DriverOwned(s)
       /\ LET h == NewFrame(frame)
              p == NewEither(either)
              H1 == MoveConstruct(Heap, p, s, h)
              r == NewEither(H1.either)
              c == [Call("awaitAndAdd") EXCEPT !.y = AddDelta] IN
          /\ either' = [H1.either EXCEPT ![r] = EitherFromHandle(h, DRIVER)]
          /\ frame' = [H1.frame EXCEPT
                         ![h] = [CallFrame(c, r) EXCEPT !.param = p]]
          /\ tracker' = H1.tracker
          /\ stack' = <<h>>
          /\ lastOp' = [NoOp EXCEPT !.op = "Call", !.src = h, !.dst = r,
                                    !.pre = either[s], !.call = c]
  /\ ncalls' = ncalls + 1
  /\ UNCHANGED fault

\* auto r = awaitAndAdd(std::move(e), 0);  an Either<int, std::string> is
\* handed through a step that composes it and co_returns the value as it is
DriverCallAwaitPass ==
  /\ Idle /\ DriverRoom /\ HasFreeFrame(frame) /\ ncalls < MaxCalls
  /\ Cardinality({i \in EitherIds : either[i].st = "free"}) >= 2
  /\ \E s \in EitherIds :
       /\ DriverOwned(s) /\ either[s].result.str = <<>>
       /\ LET h == NewFrame(frame)
              p == NewEither(either)
              H1 == MoveConstruct(Heap, p, s, h)
              r == NewEither(H1.either)
              c == [Call("awaitAndAdd") EXCEPT !.y = 0] IN
          /\ either' = [H1.either EXCEPT ![r] = EitherFromHandle(h, DRIVER)]
          /\ frame' = [H1.frame EXCEPT
                         ![h] = [CallFrame(c, r) EXCEPT !.param = p]]
          /\ tracker' = H1.tracker
          /\ stack' = <<h>>
          /\ lastOp' = [NoOp EXCEPT !.op = "Call", !.src = h, !.dst = r,
                                    !.pre = either[s], !.call = c]
  /\ ncalls' = ncalls + 1
  /\ UNCHANGED fault

\* ------------------------------------------------------- the interpreter
\* The operand of co_await step(args), or the initialiser of
\* auto local = step(args), is evaluated: the nested step runs until it
\* completes or suspends; its Either lives in the calling frame
StepCall ==
  \E f \in FrameIds :
    /\ Running(f) /\ frame[f].ph = "call"
    /\ Stmt(either, frame[f]).op \in {"await_call", "interop_call", "call_local"}
    /\ HasFreeEither(either) /\ HasFreeFrame(frame)
    /\ LET c == Stmt(either, frame[f])
           h == NewFrame(frame)
           t == NewEither(either)
           F1 == [frame EXCEPT ![h] = CallFrame(c, t)] IN
       /\ either' = [either EXCEPT ![t] = EitherFromHandle(h, f)]
       /\ frame' =
            CASE c.op \in {"await_call", "interop_call"} ->
                   [F1 EXCEPT ![f].tmp = t, ![f].ph = "compose"]
              [] c.loc = 1 -> [F1 EXCEPT ![f].loc1 = t, ![f].pc = @ + 1]
              [] OTHER -> [F1 EXCEPT ![f].loc2 = t, ![f].pc = @ + 1]
       /\ stack' = Append(stack, h)
    /\ UNCHANGED <<fault, lastOp, ncalls, tracker>>

\* The Either that the statement s of frame f composes
Awaited(f, s) ==
  CASE s.op = "await_param" -> f.param
    [] s.op \in {"await_local", "interop_local"} ->
         IF s.loc = 1 THEN f.loc1 ELSE f.loc2
    [] OTHER -> f.tmp

AtCompose(f, s) ==
  \/ s.op = "await_call" /\ f.ph = "compose"
  \/ s.op \in {"await_param", "await_local"}

\* await_transform(EitherImpl&&) / await_transform(EitherImpl&) and the
\* PropagatingAwaiter protocol
StepCompose ==
  \E f \in FrameIds :
    /\ Running(f) /\ AtCompose(frame[f], Stmt(either, frame[f]))
    /\ LET s == Stmt(either, frame[f])
           a == Awaited(frame[f], s) IN
       IF await_ready(either, a)
       THEN LET H == await_resume(Heap, f, a, s) IN
            /\ either' = H.either
            /\ frame' = H.frame
            /\ tracker' = H.tracker
            /\ UNCHANGED <<stack, fault>>
       ELSE IF error(either, a) # NULL
       THEN LET H == await_suspend(Heap, f, a) IN
            /\ either' = H.either
            /\ frame' = H.frame
            /\ tracker' = H.tracker
            /\ stack' = Pop
            /\ UNCHANGED fault
       ELSE \* assert(err && "`await_suspend` must be called with error
            \* state"): abort, or with NDEBUG a null dereference
            /\ fault' \in {"assert", "crash"}
            /\ UNCHANGED <<either, frame, stack, tracker>>
    /\ UNCHANGED <<lastOp, ncalls>>

\* The await expression of local k of frame h yields the string t
Yield(F, h, k, t) ==
  IF k = 1
  THEN [F EXCEPT ![h].t1 = t, ![h].aw = NoAwaitable, ![h].st = "active",
                 ![h].pc = @ + 1]
  ELSE [F EXCEPT ![h].t2 = t, ![h].aw = NoAwaitable, ![h].st = "active",
                 ![h].pc = @ + 1]

\* co_await AsyncFetch{...}: await_transform passes the producer through
\* and the producer's protocol decides: when await_ready() is false and
\* await_suspend() returns true the frame is suspended and control returns
\* to whoever called or resumed it, otherwise await_resume() yields at once
StepAwaitForeign ==
  \E f \in FrameIds :
    /\ Running(f)
    /\ Stmt(either, frame[f]).op = "await_foreign"
    /\ LET s == Stmt(either, frame[f])
           aw == await_transform(AsyncFetch(s.str)) IN
       IF ~aw.ready /\ aw.suspend
       THEN /\ frame' = [frame EXCEPT ![f].st = "suspended", ![f].aw = aw]
            /\ stack' = Pop
       ELSE /\ frame' = Yield(frame, f, s.loc, aw.data)
            /\ stack' = stack
    /\ UNCHANGED <<either, fault, lastOp, ncalls, tracker>>

\* The Either that holds handle h (NULL if none does)
OwnerOf(E, h) ==
  IF \E i \in EitherIds : E[i].st = "live" /\ E[i].handle = h
  THEN CHOOSE i \in EitherIds : E[i].st = "live" /\ E[i].handle = h
  ELSE NULL

\* The thread of AsyncFetch calls h.resume(): await_resume() yields the
\* fetched string and the step goes on with its next statement.  When the
\* frame was destroyed in the meantime the handle dangles and resume() is
\* undefined behaviour: the process crashes or runs on freed memory.
Resume ==
  /\ Idle
  /\ \E h \in FrameIds :
       /\ frame[h].st \in {"suspended", "freed"}
       /\ lastOp' = [NoOp EXCEPT !.op = "Resume", !.src = h,
                                 !.dst = OwnerOf(either, h),
                                 !.origin = frame[h].origin]
       /\ IF frame[h].st = "suspended"
          THEN /\ frame' = Yield(frame, h, Stmt(either, frame[h]).loc,
                                 frame[h].aw.data)
               /\ stack' = <<h>>
               /\ UNCHANGED fault
          ELSE /\ fault' \in {"crash", "use_after_free"}
               /\ UNCHANGED <<frame, stack>>
  /\ UNCHANGED <<either, ncalls, tracker>>

\* co_return value; / co_return error;
StepReturn ==
  \E f \in FrameIds :
    /\ Running(f)
    /\ \E s \in {Stmt(either, frame[f])} :
         /\ s.op \in {"return_data", "return_str", "return_error"}
         /\ \E H \in {CoReturn(Heap, f, s)} :
              /\ either' = H.either
              /\ frame' = H.frame
              /\ tracker' = H.tracker
    /\ stack' = Pop
    /\ UNCHANGED <<fault, lastOp, ncalls>>

\* ------------------------------------------- a consumer that is a SimpleTask
\* auto task = computeInTask(a, b);  initial_suspend is suspend_always: the
\* body has not started
DriverCallTask ==
  /\ Idle /\ HasFreeFrame(frame) /\ ncalls < MaxCalls
  /\ \E c \in TaskCalls :
       LET h == NewFrame(frame) IN
       /\ frame' = [frame EXCEPT ![h] = [CallFrame(c, NULL) EXCEPT !.st = "lazy"]]
       /\ lastOp' = [NoOp EXCEPT !.op = "Task", !.src = h, !.call = c]
  /\ ncalls' = ncalls + 1
  /\ UNCHANGED <<either, stack, fault, tracker>>

\* task.run(): handle.resume()
RunTask ==
  /\ Idle
  /\ \E h \in FrameIds :
       /\ frame[h].st = "lazy"
       /\ frame' = [frame EXCEPT ![h].st = "active"]
       /\ stack' = <<h>>
       /\ lastOp' = [NoOp EXCEPT !.op = "Run", !.src = h]
  /\ UNCHANGED <<either, fault, ncalls, tracker>>

\* The await expression s yields a new Either
YieldsByValue(s) == s.op = "interop_call" /\ ~s.void

AtInterop(f, s) ==
  \/ s.op = "interop_call" /\ f.ph = "compose"
  \/ s.op = "interop_local"

\* co_await either in the SimpleTask: its promise has no await_transform,
\* so operator co_await() & / && gives the InteropAwaiter
StepInterop ==
  \E f \in FrameIds :
    /\ Running(f) /\ AtInterop(frame[f], Stmt(either, frame[f]))
    /\ YieldsByValue(Stmt(either, frame[f])) => HasFreeEither(either)
    /\ LET s == Stmt(either, frame[f])
           a == Awaited(frame[f], s)
           H == IF interop_await_ready(either, a)
                THEN interop_await_resume(Heap, f, a, s, NewEither(either))
                ELSE interop_await_suspend(Heap, f, a) IN
       /\ either' = H.either
       /\ frame' = H.frame
       /\ tracker' = H.tracker
       /\ stack' = IF interop_await_ready(either, a) THEN stack ELSE Pop
    /\ UNCHANGED <<fault, lastOp, ncalls>>

\* co_return value; in the SimpleTask, and run() returns *promise().result
StepTaskReturn ==
  \E f \in FrameIds :
    /\ Running(f)
    /\ Stmt(either, frame[f]).op = "task_return"
    /\ frame' = return_value_Task(frame, f, Stmt(either, frame[f]).data)
    /\ stack' = Pop
    /\ UNCHANGED <<either, fault, lastOp, ncalls, tracker>>

\* ~SimpleTask(): if (handle) handle.destroy();
DriverDestroyTask ==
  /\ Idle
  /\ \E h \in FrameIds :
       /\ frame[h].st \in {"lazy", "final", "stuck"}
       /\ LET H == DestroyFrame(Heap, h) IN
          /\ either' = H.either
          /\ frame' = H.frame
          /\ tracker' = H.tracker
          /\ lastOp' = [NoOp EXCEPT !.op = "DestroyTask", !.src = h]
  /\ UNCHANGED <<stack, fault, ncalls>>

\* ------------------------------------------------------- the poll loop
\* if (it->done()) { ...; it = tasks.erase(it); } else ++it;
\* the driver reads done() of its Either i and erases it when it is done
PollAt(i) ==
  /\ Idle /\ DriverOwned(i)
  /\ LET H == IF done(either[i]) THEN DestroyEither(Heap, i) ELSE Heap IN
     /\ either' = H.either
     /\ frame' = H.frame
     /\ tracker' = H.tracker
  /\ lastOp' = [NoOp EXCEPT !.op = "Poll", !.src = i, !.pre = either[i]]
  /\ UNCHANGED <<stack, fault, ncalls>>

Poll == \E i \in EitherIds : PollAt(i)

\* The composition tests: the driver builds Eithers, may move them and
\* calls the steps that run to completion
Next ==
  \/ ConstructData
  \/ ConstructError
  \/ DriverMoveConstruct
  \/ DriverDestroy
  \/ DriverCall
  \/ DriverCallAwaitAndAdd
  \/ StepCall
  \/ StepCompose
  \/ StepReturn

Spec == Init /\ [][Next]_vars

\* The value mode, move and interop tests: the driver builds, moves and
\* destroys Eithers, among them the pending ones of suspended steps, which
\* the fetch threads resume
NextMove ==
  \/ ConstructData
  \/ ConstructError
  \/ DriverMoveConstruct
  \/ DriverMoveAssign
  \/ DriverDestroy
  \/ DriverCallAsync
  \/ StepCall
  \/ StepCompose
  \/ StepAwaitForeign
  \/ Resume
  \/ StepReturn

SpecMove == Init /\ [][NextMove]_vars

\* The interop examples: the driver creates SimpleTasks, runs them and
\* destroys them
NextInterop ==
  \/ DriverCallTask
  \/ RunTask
  \/ StepCall
  \/ StepCompose
  \/ StepInterop
  \/ StepReturn
  \/ StepTaskReturn
  \/ DriverDestroyTask

SpecInterop == Init /\ [][NextInterop]_vars

\* The async example: the driver launches steps that suspend, stores their
\* Eithers (a move) and polls them until they are done; the fetch threads
\* resume the steps.  The poll loop keeps polling every task, every fetch
\* thread wakes up and calls resume(), and a running step keeps running.
NextPoll ==
  \/ DriverCallAsync
  \/ DriverMoveConstruct
  \/ Poll
  \/ StepCall
  \/ StepCompose
  \/ StepAwaitForeign
  \/ Resume
  \/ StepReturn

\* The zero-copy tests: Eithers whose payload is a MoveTracker are built,
\* moved, assigned, destroyed and produced by steps, and the counters are
\* reset between the scenarios; divideStr composes borrowed and
\* transferred Eithers
NextTrack ==
  \/ Reset
  \/ ConstructTracker
  \/ DriverMoveConstruct
  \/ DriverMoveAssign
  \/ DriverDestroy
  \/ DriverCallTracker
  \/ DriverCallStr
  \/ StepCall
  \/ StepCompose
  \/ StepReturn

SpecTrack == Init /\ [][NextTrack]_vars

\* The example chain: the driver calls divide, parseDouble and divideStr,
\* reads the results, may move them and lets them go out of scope
NextExample ==
  \/ DriverCallExample
  \/ DriverMoveConstruct
  \/ DriverDestroy
  \/ StepCall
  \/ StepCompose
  \/ StepReturn

SpecExample == Init /\ [][NextExample]_vars

\* The recursive benchmark: the driver calls recursiveCoawait, compares its
\* result with recursiveThrow and recursiveExplicit and lets it go out of
\* scope
NextRecursive ==
  \/ DriverCallRecursive
  \/ DriverDestroy
  \/ StepCall
  \/ StepCompose
  \/ StepReturn

SpecRecursive == Init /\ [][NextRecursive]_vars

\* The accessor tests: the driver builds Eithers from values, from errors
\* and from steps, and reads them
NextRead ==
  \/ ConstructData
  \/ ConstructError
  \/ DriverCallExample
  \/ DriverRead
  \/ DriverDestroy
  \/ StepCall
  \/ StepCompose
  \/ StepReturn

SpecRead == Init /\ [][NextRead]_vars

\* The boundary tests: Eithers are built from boundary payloads, moved,
\* composed by a step that hands the value through, and read
NextBoundary ==
  \/ ConstructBoundary
  \/ DriverMoveConstruct
  \/ DriverCallAwaitPass
  \/ DriverRead
  \/ DriverDestroy
  \/ StepCompose
  \/ StepReturn

SpecBoundary == Init /\ [][NextBoundary]_vars

\* A step composes an Either whose Error type is not its own; the driver
\* reads the results and may move them
NextMismatch ==
  \/ DriverCallMismatch
  \/ DriverRead
  \/ DriverMoveConstruct
  \/ DriverDestroy
  \/ StepCall
  \/ StepInterop
  \/ StepReturn

SpecMismatch == Init /\ [][NextMismatch]_vars

\* a step that is running runs on: one statement of the innermost frame
Step == StepCall \/ StepCompose \/ StepAwaitForeign \/ StepReturn

\* the poll loop visits every task, so it reaches one that is done
PollDone == \E i \in EitherIds : done(either[i]) /\ PollAt(i)

SpecPoll ==
  /\ Init /\ [][NextPoll]_vars
  /\ WF_vars(PollDone)
  /\ WF_vars(Resume)
  /\ WF_vars(Step)

\* ------------------------------------------- the fetch thread in parallel
\* The driver's call of asyncDivideStr returns at the first co_await
\* AsyncFetch (pc 1); every later statement of the step runs on the
\* detached thread of an AsyncFetch, while the driver polls
OnThread == fault = "none" /\ stack # <<>> /\ frame[stack[1]].pc > 1

\* The statements that deposit into the Either of the step
Deposits(f, s) ==
  \/ s.op \in {"return_data", "return_str", "return_error"}
  \/ /\ s.op = "await_call" /\ f.ph \in {"compose", "store"}
     /\ error(either, Awaited(f, s)) # NULL

\* _set*AndNullifyHandle as return_value or await_suspend calls it
Deposit(H, f, s) ==
  IF s.op \in {"return_data", "return_str", "return_error"}
  THEN CoReturn(H, f, s)
  ELSE await_suspend(H, f, Awaited(H.frame[f], s))

\* _result = std::move(value);  the first statement of
\* _set*AndNullifyHandle, run by the fetch thread on an Either the driver
\* owns: nothing orders it with the driver's reads
ThreadStore ==
  \E f \in FrameIds :
    /\ OnThread /\ Running(f) /\ frame[f].ph # "store"
    /\ either[frame[f].either].owner = DRIVER
    /\ \E s \in {Stmt(either, frame[f])} :
         /\ Deposits(frame[f], s)
         /\ \E H \in {Deposit(Heap, f, s)} :
              either' = [either EXCEPT ![frame[f].either].result =
                                         H.either[frame[f].either].result]
    /\ frame' = [frame EXCEPT ![f].ph = "store"]
    /\ UNCHANGED <<stack, fault, lastOp, ncalls, tracker>>

\* _handle = nullptr;  then final_suspend (suspend_never) or h.destroy():
\* the frame ends
ThreadDetach ==
  \E f \in FrameIds :
    /\ OnThread /\ Running(f) /\ frame[f].ph = "store"
    /\ \E H \in {Deposit(Heap, f, Stmt(either, frame[f]))} :
         /\ either' = H.either
         /\ frame' = H.frame
         /\ tracker' = H.tracker
    /\ stack' = Pop
    /\ UNCHANGED <<fault, lastOp, ncalls>>

\* The statements of the thread that touch no Either of the driver
ThreadLocal(f) ==
  /\ OnThread /\ Running(f) /\ frame[f].ph # "store"
  /\ either[frame[f].either].owner = DRIVER
       => ~Deposits(frame[f], Stmt(either, frame[f]))

ThreadCompose == StepCompose /\ \E f \in FrameIds : ThreadLocal(f)

ThreadReturn == StepReturn /\ \E f \in FrameIds : ThreadLocal(f)

\* if (it->done()) { ...; it = tasks.erase(it); } else ++it;  run by the
\* driver while the thread runs the step.  Erasing an Either whose handle
\* is still set destroys the frame the thread is running in.
PollWhileResumed ==
  \E i \in EitherIds :
    /\ OnThread /\ DriverOwned(i)
    /\ lastOp' = [NoOp EXCEPT !.op = "Poll", !.src = i, !.pre = either[i]]
    /\ \E H \in {IF done(either[i]) THEN DestroyEither(Heap, i) ELSE Heap} :
         /\ either' = H.either
         /\ frame' = H.frame
         /\ tracker' = H.tracker
    /\ IF done(either[i]) /\ either[i].handle # NULL
       THEN fault' \in {"crash", "use_after_free"}
       ELSE UNCHANGED fault
    /\ UNCHANGED <<stack, ncalls>>

\* The async example with the fetch thread and the poll loop side by side
NextThread ==
  \/ DriverCallAsync
  \/ DriverMoveConstruct
  \/ Poll
  \/ PollWhileResumed
  \/ StepAwaitForeign
  \/ Resume
  \/ StepCall
  \/ ThreadCompose
  \/ ThreadReturn
  \/ ThreadStore
  \/ ThreadDetach

SpecThread == Init /\ [][NextThread]_vars

\* The steps and what their owner does with the Either afterwards: the
\* driver calls a step, one that runs to completion or one that suspends
\* and is resumed by the fetch threads, and moves, assigns and destroys
\* the Either it got
NextDeposit ==
  \/ DriverCall
  \/ DriverCallAsync
  \/ DriverMoveConstruct
  \/ DriverMoveAssign
  \/ DriverDestroy
  \/ StepCall
  \/ StepCompose
  \/ StepAwaitForeign
  \/ Resume
  \/ StepReturn

SpecDeposit == Init /\ [][NextDeposit]_vars

\* chainedAwaitsAllSucceed has three compositions; chainedAwaitsFirstFails
\* and chainedAwaitsMiddleFails fail in the first and in the second
kChainSteps == 3

ChainCalls ==
  {[Call("chainedAwaits") EXCEPT !.x = x, !.y = kChainSteps, !.fs = fs] :
     x \in DataInputs, fs \in {{}, {1}, {2}}}

\* auto result = chainedAwaitsAllSucceed(start);
DriverCallChain ==
  /\ Idle /\ DriverRoom /\ HasFreeFrame(frame) /\ ncalls < MaxCalls
  /\ \E c \in ChainCalls : StartCall(c)

\* The chained compositions: the driver calls a chain, reads its result,
\* moves it and lets it go
NextChain ==
  \/ DriverCallChain
  \/ DriverRead
  \/ DriverMoveConstruct
  \/ DriverDestroy
  \/ StepCall
  \/ StepCompose
  \/ StepReturn

SpecChain == Init /\ [][NextChain]_vars

\* computeWithValidation(5), computeWithValidation(-1) and the values
\* around zero; validatePositive on its own
kValid == 5
ValidationInputs == ((0 - MaxInput)..MaxInput) \cup {kValid}

ValidationCalls ==
  {[Call(fn) EXCEPT !.x = x] :
     fn \in {"computeWithValidation", "validatePositive"}, x \in ValidationInputs}

\* auto success = computeWithValidation(5);
DriverCallValidation ==
  /\ Idle /\ DriverRoom /\ HasFreeFrame(frame) /\ ncalls < MaxCalls
  /\ \E c \in ValidationCalls : StartCall(c)

\* The Void validation: the driver calls the steps, reads the results,
\* moves them and lets them go
NextVoid ==
  \/ DriverCallValidation
  \/ DriverRead
  \/ DriverMoveConstruct
  \/ DriverDestroy
  \/ StepCall
  \/ StepCompose
  \/ StepReturn

SpecVoid == Init /\ [][NextVoid]_vars

\* ------------------------------------------------------------ exceptions
\* An unhandled_exception() that turns the exception into an Error of the
\* step
unhandled_exception_ToError(H, h) ==
  [fault |-> "none",
   heap |-> CoReturn(H, h, ReturnError(Message("unhandled exception")))]

\* Promise::unhandled_exception() noexcept { std::terminate(); }
unhandled_exception(H, h) == [fault |-> "terminate", heap |-> H]

\* The body of the running step throws: the exception reaches
\* unhandled_exception(); when that returns, final_suspend is next and the
\* step is over
StepThrow ==
  \E f \in FrameIds :
    /\ Running(f) /\ Stmt(either, frame[f]).op = "throw"
    /\ \E u \in {unhandled_exception(Heap, f)} :
         /\ fault' = u.fault
         /\ either' = u.heap.either
         /\ frame' = u.heap.frame
         /\ tracker' = u.heap.tracker
         /\ stack' = IF u.fault = "none" THEN Pop ELSE stack
    /\ UNCHANGED <<lastOp, ncalls>>

\* The strings handed to the steps that parse without a try block
UncheckedInputs == {<<"1", "0">>, <<" ", "4", "2">>, <<"a", "b", "c">>, <<>>}

UncheckedCalls ==
  {[Call(fn) EXCEPT !.s1 = t] :
     fn \in {"parseUnchecked", "awaitUnchecked"}, t \in UncheckedInputs}

\* auto r = parseUnchecked(str);
DriverCallUnchecked ==
  /\ Idle /\ DriverRoom /\ HasFreeFrame(frame) /\ ncalls < MaxCalls
  /\ \E c \in UncheckedCalls : StartCall(c)

\* Steps whose body may throw: the driver calls them, reads what comes
\* back, moves it and lets it go
NextThrow ==
  \/ DriverCallUnchecked
  \/ DriverRead
  \/ DriverMoveConstruct
  \/ DriverDestroy
  \/ StepCall
  \/ StepCompose
  \/ StepThrow
  \/ StepReturn

SpecThrow == Init /\ [][NextThrow]_vars

\* --------------------------------------------------------------- Borrower
\* explicit Borrower(T* pointer) : _pointer(pointer)
Borrower(pointer) == [pointer |-> pointer]

\* explicit operator bool(): return _pointer != nullptr
Borrower_bool(b) == b.pointer # NULL

\* operator==(std::nullptr_t): return _pointer == nullptr
Borrower_eq_nullptr(b) == b.pointer = NULL

\* get(): return _pointer
Borrower_get(b) == b.pointer

\* A dereference without BORROWED_PTR_ASSERT that hands out whatever the
\* pointer is
Borrower_deref_Unguarded(b) == [faults |-> {"none"}, ref |-> b.pointer]

\* operator->(), operator*() and value(), const or not:
\* BORROWED_PTR_ASSERT(_pointer); return _pointer (or *_pointer).  On a null
\* pointer the assertion aborts; with NDEBUG the dereference is undefined
Borrower_deref(b) ==
  IF b.pointer = NULL
  THEN [faults |-> {"assert", "crash"}, ref |-> NULL]
  ELSE [faults |-> {"none"}, ref |-> b.pointer]

Dereferences == {"arrow", "star", "value"}

\* auto b = e.data();  or  auto b = e.error();  then the three presence
\* tests (bool(b), b.get(), b == nullptr), or one dereference of b
DriverBorrow ==
  /\ Idle
  /\ \E i \in EitherIds, which \in {"data", "error"},
        use \in {"test"} \cup Dereferences :
       /\ DriverOwned(i)
       /\ \E b \in {Borrower(Access(Heap, i, which).view)} :
            IF use = "test"
            THEN /\ lastOp' = [NoOp EXCEPT
                                 !.op = use, !.src = i, !.pre = either[i],
                                 !.preDst = which,
                                 !.v = IF Borrower_bool(b) THEN 1 ELSE 0,
                                 !.dst = Borrower_get(b),
                                 !.origin = IF Borrower_eq_nullptr(b) THEN 1 ELSE 0]
                 /\ UNCHANGED fault
            ELSE /\ lastOp' = [NoOp EXCEPT
                                 !.op = use, !.src = i, !.pre = either[i],
                                 !.preDst = which,
                                 !.dst = Borrower_deref(b).ref]
                 /\ fault' \in Borrower_deref(b).faults
  /\ UNCHANGED <<either, frame, stack, ncalls, tracker>>

\* The borrowed views: the driver builds Eithers, moves them, calls steps
\* and tests or dereferences what data() and error() return
NextBorrow ==
  \/ ConstructData
  \/ ConstructError
  \/ DriverMoveConstruct
  \/ DriverCallExample
  \/ DriverBorrow
  \/ DriverDestroy
  \/ StepCall
  \/ StepCompose
  \/ StepReturn

SpecBorrow == Init /\ [][NextBorrow]_vars

\* ------------------------------------------------------------ properties
\* The driver is back in control after its last operation
Returned == stack = <<>> /\ fault = "none"
Min(S) == CHOOSE k \in S : \A j \in S : k <= j
Result(i) == either[i].result
Completed(i) == either[i].st = "live" /\ either[i].handle = NULL

\* C1: a step that composes N nested steps one after another never goes
\* past the first nested step whose Either holds an Error (the later nested
\* steps and the remaining statements are not evaluated), and its own
\* Either completes with exactly that step's Error.
C1_ShortCircuit ==
  /\ \A f \in FrameIds :
       frame[f].st = "active" /\ frame[f].fn = "chainedAwaits"
         => \A j \in frame[f].fs : frame[f].pc <= j
  /\ Returned /\ lastOp.op = "Call" /\ lastOp.call.fn = "chainedAwaits"
       /\ lastOp.call.fs # {}
       => /\ Completed(lastOp.dst)
          /\ Result(lastOp.dst) = ErrorAlt(ChainMsg(Min(lastOp.call.fs)))

C1_Witness ==
  /\ Returned /\ lastOp.op = "Call" /\ lastOp.call.fn = "chainedAwaits"
  /\ lastOp.call.y = 2 /\ lastOp.call.fs = {1, 2}
  /\ Result(lastOp.dst).alt = "error"

\* C2: composing a nested Either that holds a Value yields exactly that
\* value (nothing for Void), the step continues with its next statement and
\* its Either finally holds what it co_returns: awaitAndAdd(v, d) completes
\* with v + d, computeWithValidation(x) with 2x for x > 0.
C2_ValueContinues ==
  /\ \A f \in FrameIds :
       frame[f].st = "active" /\ frame[f].fn = "awaitAndAdd" /\ frame[f].pc = 2
         => frame[f].acc = Result(frame[f].param).data
  /\ Returned /\ lastOp.op = "Call" /\ lastOp.call.fn = "awaitAndAdd"
       /\ lastOp.pre.result.alt = "data"
       => /\ Completed(lastOp.dst)
          /\ Result(lastOp.dst) = DataAlt(lastOp.pre.result.data + lastOp.call.y)
  /\ Returned /\ lastOp.op = "Call"
       /\ lastOp.call.fn = "computeWithValidation" /\ lastOp.call.x > 0
       => /\ Completed(lastOp.dst)
          /\ Result(lastOp.dst) = DataAlt(2 * lastOp.call.x)

C2_Witness ==
  /\ Returned /\ lastOp.op = "Call" /\ lastOp.call.fn = "awaitAndAdd"
  /\ lastOp.pre.result = DataAlt(1)
  /\ Result(lastOp.dst).alt = "data"

\* C3: in a nest of steps of any depth, the Error of the innermost step
\* becomes, unchanged, the result of every enclosing step and no enclosing
\* step runs a statement after its composition; a Value of the innermost
\* step reaches every level as the value produced by the level below.
DeepError == ErrorAlt(Message("deep error"))

C3_DeepNesting ==
  /\ \A f \in FrameIds :
       frame[f].st = "active" /\ frame[f].fn = "level"
         => /\ frame[f].fs # {} => frame[f].pc = 1
            /\ frame[f].pc = 2 => frame[f].acc = frame[f].x + frame[f].z - frame[f].y
            /\ frame[f].tmp # NULL /\ Completed(frame[f].tmp)
                 => Result(frame[f].tmp) =
                      IF frame[f].fs # {} THEN DeepError
                      ELSE DataAlt(frame[f].x + frame[f].z - frame[f].y)
  /\ Returned /\ lastOp.op = "Call" /\ lastOp.call.fn = "level"
       => /\ Completed(lastOp.dst)
          /\ Result(lastOp.dst) =
               IF lastOp.call.fs # {} THEN DeepError
               ELSE DataAlt(lastOp.call.x + lastOp.call.z)

C3_Witness ==
  /\ Returned /\ lastOp.op = "Call" /\ lastOp.call.fn = "level"
  /\ lastOp.call.z = 3 /\ lastOp.call.fs # {}
  /\ Result(lastOp.dst) = DeepError

\* C4: an Either constructed from Value v is done(), data() is present and
\* equal to v, and error() is absent.
C4_FromValue ==
  lastOp.op = "ConstructData"
    => /\ done(either[lastOp.dst])
       /\ data(either, lastOp.dst) # NULL
       /\ Result(data(either, lastOp.dst)).data = lastOp.v
       /\ error(either, lastOp.dst) = NULL

C4_Witness ==
  lastOp.op = "ConstructData" /\ lastOp.v = 1 /\ either[lastOp.dst].st = "live"

\* C5: an Either constructed from Error e is done(), error() is present and
\* equal to e, and data() is absent.
C5_FromError ==
  lastOp.op = "ConstructError"
    => /\ done(either[lastOp.dst])
       /\ error(either, lastOp.dst) # NULL
       /\ Result(error(either, lastOp.dst)).error = lastOp.m
       /\ data(either, lastOp.dst) = NULL

C5_Witness ==
  /\ lastOp.op = "ConstructError" /\ lastOp.m = Message("new error")
  /\ either[lastOp.dst].st = "live"

\* C6: data() and error() are never both present, and done() is true
\* exactly when one of them is present.
C6_OneView ==
  \A i \in EitherIds :
    either[i].st = "live"
      => /\ ~(data(either, i) # NULL /\ error(either, i) # NULL)
         /\ done(either[i]) <=> (data(either, i) # NULL \/ error(either, i) # NULL)

C6_Witness ==
  \E i, j \in EitherIds :
    /\ DriverOwned(i) /\ either[i].handle # NULL /\ ~done(either[i])
    /\ DriverOwned(j) /\ done(either[j]) /\ error(either, j) # NULL
    /\ data(either, j) = NULL

\* C7: after f = move(e) by move construction, f has e's former done(),
\* views, payload and handle, and e is Empty: not done(), both views absent,
\* no handle.
Empty(i) ==
  /\ ~done(either[i]) /\ data(either, i) = NULL /\ error(either, i) = NULL
  /\ either[i].handle = NULL

C7_MoveConstruct ==
  lastOp.op = "MoveConstruct"
    => /\ done(either[lastOp.dst]) = done(lastOp.pre)
       /\ (data(either, lastOp.dst) # NULL) = (lastOp.pre.result.alt = "data")
       /\ (error(either, lastOp.dst) # NULL) = (lastOp.pre.result.alt = "error")
       /\ Result(lastOp.dst) = lastOp.pre.result
       /\ either[lastOp.dst].handle = lastOp.pre.handle
       /\ either[lastOp.src].st = "live" /\ Empty(lastOp.src)

C7_Witness ==
  /\ lastOp.op = "MoveConstruct" /\ lastOp.pre.handle # NULL
  /\ either[lastOp.dst].handle # NULL

\* C8: after dst = move(src) between two distinct Eithers, dst holds src's
\* former state whatever it held before, and src is Empty.
C8_MoveAssign ==
  lastOp.op = "MoveAssign" /\ lastOp.src # lastOp.dst
    => /\ Result(lastOp.dst) = lastOp.pre.result
       /\ either[lastOp.dst].handle = lastOp.pre.handle
       /\ done(either[lastOp.dst]) = done(lastOp.pre)
       /\ either[lastOp.src].st = "live" /\ Empty(lastOp.src)

C8_Witness ==
  /\ lastOp.op = "MoveAssign" /\ lastOp.src # lastOp.dst
  /\ lastOp.preDst = "data" /\ lastOp.pre.result.alt = "error"
  /\ error(either, lastOp.dst) # NULL

\* C9: e = move(e) changes nothing: payload, done() and handle are as
\* before and the continuation, if any, is still suspended and bound to e.
C9_SelfMoveAssign ==
  lastOp.op = "MoveAssign" /\ lastOp.src = lastOp.dst
    => /\ either[lastOp.dst] = lastOp.pre
       /\ lastOp.pre.handle # NULL
            => /\ frame[lastOp.pre.handle].st = "suspended"
               /\ frame[lastOp.pre.handle].either = lastOp.dst

C9_Witness ==
  /\ lastOp.op = "MoveAssign" /\ lastOp.src = lastOp.dst
  /\ lastOp.pre.handle # NULL

\* C10: when a suspended step is resumed, whatever moves its Either went
\* through, only the Either that holds the handle changes while the step
\* runs (no former owner does), and when the step ends that Either is
\* done() with the handle detached.
C10_DepositAtOwner ==
  [][ /\ stack # <<>>
        => \A i \in EitherIds :
             DriverOwned(i) /\ either[i].handle # stack[1]
               => either'[i] = either[i]
      /\ lastOp.op = "Resume" /\ stack # <<>> /\ stack' = <<>>
           /\ fault' = "none" /\ frame'[lastOp.src].st = "none"
           => /\ either'[lastOp.dst].st = "live"
              /\ done(either'[lastOp.dst])
              /\ either'[lastOp.dst].handle = NULL ]_vars

C10_Witness ==
  /\ Returned /\ lastOp.op = "Resume" /\ frame[lastOp.src].st = "none"
  /\ lastOp.origin # lastOp.dst
  /\ done(either[lastOp.dst])
  /\ either[lastOp.origin].st = "live" /\ Empty(lastOp.origin)

\* Frame f is about to await an Either through the InteropAwaiter
InteropStep(f) ==
  Running(f) /\ AtInterop(frame[f], Stmt(either, frame[f]))

Local(f, k) == IF k = 1 THEN f.loc1 ELSE f.loc2

\* C11: an Either of any Value type, Void included, awaited by a consumer
\* that is not an Either-producing step never suspends the consumer and
\* yields the Either itself: the same instance by reference, unchanged, for
\* an lvalue, and a moved Either reproducing its state for a temporary.
C11_WholeObject ==
  [][ \A f \in FrameIds :
        InteropStep(f)
          => LET s == Stmt(either, frame[f])
                 a == Awaited(frame[f], s) IN
             /\ frame'[f].st = "active" /\ stack' = stack
             /\ s.op = "interop_local"
                  => frame'[f].ref = a /\ either'[a] = either[a]
             /\ s.op = "interop_call"
                  => LET d == Local(frame'[f], s.loc) IN
                     /\ d # NULL
                     /\ either'[d].st = "live"
                     /\ either'[d].result = either[a].result
                     /\ either'[d].handle = either[a].handle ]_vars

\* C12: awaiting an Either that holds an Error from a consumer that is not
\* an Either-producing step never ends the consumer nor skips a statement:
\* it goes on with its next statement and computeInTask reaches its
\* co_return, where it returns the sentinel because error() is present; a
\* frame ends at an await only when it is an Either-producing step that
\* awaits an Either.
TaskResult(E, f) ==
  IF data(E, f.loc1) # NULL /\ data(E, f.ref) # NULL
  THEN E[f.loc1].result.data * kMultiplier * E[f.ref].result.data
  ELSE kErrorSentinel

C12_ConsumerContinues ==
  [][ /\ \A f \in FrameIds :
           InteropStep(f)
             => /\ frame'[f].st = "active" /\ stack' = stack
                /\ frame'[f].pc = frame[f].pc + 1
                /\ fault' = "none"
      /\ \A f \in FrameIds :
           /\ Running(f) /\ frame'[f].st # "active"
           /\ Stmt(either, frame[f]).op
                 \notin {"return_data", "return_str", "return_error", "task_return"}
           => /\ frame[f].either # NULL
              /\ AtCompose(frame[f], Stmt(either, frame[f]))
              /\ error(either, Awaited(frame[f], Stmt(either, frame[f]))) # NULL
      /\ \A f \in FrameIds :
           frame'[f].st = "final" /\ frame'[f].fn = "computeInTask"
             => /\ frame'[f].has /\ frame'[f].pc = 4
                /\ frame'[f].val = TaskResult(either', frame'[f]) ]_vars

C12_Witness ==
  \E f \in FrameIds :
    /\ frame[f].st = "final" /\ frame[f].fn = "computeInTask"
    /\ error(either, frame[f].loc1) # NULL /\ data(either, frame[f].ref) # NULL
    /\ frame[f].val = kErrorSentinel

\* C13: when an Either-producing step awaits a producer that is not an
\* Either, the producer is handed through unmodified and its own protocol
\* decides: AsyncFetch is not ready and suspends the step, and on resumption
\* the await yields the producer's string; the Either layer changes no
\* Either on the way.  While the step is suspended the Either that holds
\* its handle is not done() and data() and error() are both absent.
Fetched(f, k) == IF k = 1 THEN f.t1 ELSE f.t2

C13_PassThrough ==
  /\ [](\A h \in FrameIds :
          frame[h].st = "suspended"
            => /\ frame[h].aw = AsyncFetch(Stmt(either, frame[h]).str)
               /\ LET i == OwnerOf(either, h) IN
                  /\ i # NULL
                  /\ ~done(either[i])
                  /\ data(either, i) = NULL /\ error(either, i) = NULL)
  /\ [][ /\ \A f \in FrameIds :
               Running(f) /\ Stmt(either, frame[f]).op = "await_foreign"
                 => /\ frame'[f].st = "suspended" /\ stack' = Pop
                    /\ frame'[f].pc = frame[f].pc
                    /\ either' = either
          /\ \A h \in FrameIds :
               frame[h].st = "suspended" /\ frame'[h].st = "active"
                 => /\ either' = either
                    /\ frame'[h].pc = frame[h].pc + 1
                    /\ Fetched(frame'[h], Stmt(either, frame[h]).loc)
                         = Stmt(either, frame[h]).str ]_vars

C13_Witness ==
  \E h \in FrameIds :
    /\ frame[h].st = "suspended" /\ frame[h].pc = 2
    /\ frame[h].t1 = frame[h].s1 /\ frame[h].s1 = <<"a", "b", "c">>
    /\ OwnerOf(either, h) # frame[h].origin

\* C14: when the fetch threads resume it and its Either is not destroyed, a
\* suspended step ends and the poll loop observes done() == true: eventually
\* no step is left suspended or running and no done Either is left
\* unobserved.  When a step ends, the Either that holds its handle is
\* done() with exactly one of error() / data() present, and a done Either
\* stays done until it is moved from (or erased by the poll that observed
\* it done).
OneView(e) == (e.result.alt = "data") # (e.result.alt = "error")
Quiescent ==
  /\ Idle
  /\ \A h \in FrameIds : frame[h].st # "suspended"
  /\ \A i \in EitherIds : DriverOwned(i) => ~done(either[i])

C14_EventuallyDone ==
  /\ <>[]Quiescent
  /\ [][ /\ \A h \in FrameIds :
               (stack = <<h>> /\ stack' = <<>> /\ frame'[h].st = "none")
               => (LET o == OwnerOf(either, h) IN
                     /\ o # NULL /\ DriverOwned(o)
                     /\ done(either'[o]) /\ OneView(either'[o])
                     /\ either'[o].handle = NULL)
          /\ \A i \in EitherIds :
               DriverOwned(i) /\ done(either[i])
                 => \/ either'[i].st = "live" /\ done(either'[i])
                    \/ lastOp'.src = i
                          /\ lastOp'.op \in {"Poll", "MoveConstruct"} ]_vars

C14_Witness ==
  /\ lastOp.op = "Poll" /\ done(lastOp.pre) /\ lastOp.pre.result = DataAlt(25)
  /\ either[lastOp.src].st = "free"

\* C15: a step that awaits no foreign producer and composes only completed
\* Eithers starts at once when it is called, and the Either it returns is
\* done() when the call returns to the driver: its handle is detached and
\* its frame is gone.
C15_DoneOnReturn ==
  /\ lastOp.op = "Call" /\ fault = "none" /\ ~Returned
       => frame[stack[1]].st = "active" /\ stack[1] = lastOp.src
  /\ lastOp.op = "Call" /\ Returned
       => /\ either[lastOp.dst].st = "live"
          /\ done(either[lastOp.dst])
          /\ either[lastOp.dst].handle = NULL
          /\ frame[lastOp.src].st = "none"

C15_Witness ==
  /\ lastOp.op = "Call" /\ Returned
  /\ lastOp.call.fn = "chainedAwaits" /\ lastOp.call.y = 2
  /\ lastOp.call.fs = {}
  /\ done(either[lastOp.dst]) /\ Result(lastOp.dst).alt = "data"

\* C16: destroying a pending Either tears down its continuation: the frame
\* is destroyed by that destruction and no Either holds its handle any
\* more; the frame is never run again (nobody resumes its handle) and
\* nothing is deposited into any Either on its behalf.
TornDown(h) == frame[h].st \in {"none", "freed"}

C16_TornDown ==
  [][ /\ \A i \in EitherIds :
            /\ DriverOwned(i) /\ either[i].handle # NULL
            /\ lastOp'.op = "Destroy" /\ lastOp'.src = i /\ lastOp' # lastOp
            => /\ frame'[either[i].handle].st \in {"none", "freed"}
               /\ OwnerOf(either', either[i].handle) = NULL
      /\ \A h \in FrameIds :
            TornDown(h) /\ OwnerOf(either, h) = NULL /\ frame[h].st = "freed"
            => /\ frame'[h].st = "freed"
               /\ ~(lastOp'.op = "Resume" /\ lastOp'.src = h
                       /\ fault = "none" /\ fault' # "none")
               /\ \A j \in EitherIds :
                    either[j].st = "live" /\ either'[j].st = "live"
                      /\ lastOp'.op = "Resume" /\ lastOp'.src = h
                      => either'[j].result = either[j].result ]_vars

\* C17: when a step composes a nested Either that holds an Error, the
\* step's own Either becomes done() with that Error and a detached handle
\* and the step's frame is destroyed.  A frame is destroyed once: a handle
\* stored in a live Either always refers to a frame that has not been
\* destroyed and that deposits into this Either, so that destroying the
\* owner or a moved-from Either later never destroys a frame again; and a
\* frame that has not been destroyed has an owner that will destroy it.
Alive(h) == frame[h].st \in {"active", "suspended"}
Propagates(f) ==
  /\ Running(f) /\ AtCompose(frame[f], Stmt(either, frame[f]))
  /\ error(either, Awaited(frame[f], Stmt(either, frame[f]))) # NULL

Owners(h) == {i \in EitherIds : either[i].st = "live" /\ either[i].handle = h}

Transfers ==
  \/ \E f \in FrameIds :
        /\ Running(f)
        /\ \/ /\ Stmt(either, frame[f]).op \in {"return_data", "return_error"}
              /\ \/ Stmt(either, frame[f]).trk
                 \/ Stmt(either, frame[f]).error = TrackerMessage
           \/ /\ AtCompose(frame[f], Stmt(either, frame[f]))
              /\ either[Awaited(frame[f], Stmt(either, frame[f]))].result.trk
  \/ /\ lastOp' # lastOp
     /\ lastOp'.op \in {"ConstructTracker", "MoveConstruct", "MoveAssign"}
     /\ lastOp'.pre.result.trk /\ lastOp'.src # lastOp'.dst

Composes(f) ==
  /\ Running(f) /\ AtCompose(frame[f], Stmt(either, frame[f]))
  /\ ~Stmt(either, frame[f]).void
  /\ data(either, Awaited(frame[f], Stmt(either, frame[f]))) # NULL

C20_BorrowOrTransfer ==
  [][\A f \in FrameIds :
       Composes(f) =>
         LET s == Stmt(either, frame[f])
             a == Awaited(frame[f], s) IN
         /\ frame'[f].st = "active"
         /\ frame'[f].acc = either[a].result.data
         /\ tracker'.s_copyCount = tracker.s_copyCount
         /\ IF s.op = "await_local"
            THEN /\ either'[a] = either[a]
                 /\ Awaited(frame'[f], s) = a
                 /\ tracker' = tracker
            ELSE /\ either[a].result.trk
                      => tracker'.s_moveCount = tracker.s_moveCount + 1
                 /\ s.op = "await_call" => either'[a].st = "free"]_vars

C20_Witness ==
  \E f \in FrameIds :
    /\ frame[f].st = "active" /\ frame[f].fn = "divideStr" /\ frame[f].pc = 3
    /\ either[frame[f].loc1].st = "live"
    /\ data(either, frame[f].loc1) # NULL
    /\ frame[f].acc = either[frame[f].loc1].result.data
    /\ frame[f].acc > 0

\* C21: a step that inspects a nested Either through error() / data()
\* instead of composing it is not terminated when that Either holds an
\* Error: when the nested step of divideStr's second operand ends with an
\* Error, divideStr is still running at its next statement with its own
\* Either pending and unchanged, and the Error becomes the result of a step
\* only when the step itself co_returns it (divideStr co_returns *err) or
\* composes the Either that holds it.
Inspects(f) ==
  /\ Running(f) /\ frame[f].fn = "divideStr" /\ frame[f].pc = 4
  /\ error(either, frame[f].loc2) # NULL

C21_InspectContinues ==
  /\ [](\A f \in FrameIds :
          Inspects(f)
            => /\ frame[f].st = "active"
               /\ ~done(either[frame[f].either])
               /\ either[frame[f].either].handle = f)
  /\ [][ /\ (\A f, h \in FrameIds :
                (/\ Running(h) /\ frame[f].fn = "divideStr"
                 /\ frame[f].loc2 # NULL /\ frame[h].either = frame[f].loc2
                 /\ Stmt(either, frame[h]).op = "return_error")
                => (/\ Inspects(f)'
                    /\ frame'[f].pc = frame[f].pc
                    /\ either'[frame[f].either] = either[frame[f].either]))
          /\ (\A g \in FrameIds :
                Inspects(g)
                  => (/\ either'[frame[g].either].result
                          = ErrorAlt(either[frame[g].loc2].result.error)
                      /\ frame'[g].st = "none"))
          /\ (\A k \in FrameIds :
                (/\ frame[k].st = "active" /\ frame[k].either # NULL
                 /\ ~done(either[frame[k].either])
                 /\ either'[frame[k].either].st = "live"
                 /\ either'[frame[k].either].result.alt = "error")
                => (/\ Running(k)
                    /\ \/ Stmt(either, frame[k]).op = "return_error"
                       \/ Propagates(k))) ]_vars

C21_Witness ==
  \E f \in FrameIds :
    /\ Inspects(f)
    /\ either[frame[f].loc2].result = ErrorAlt(CannotParse(<<"a", "b", "c">>))
    /\ frame[f].acc = 5

\* The example chain on its scenario inputs, with parseMessage the Error of
\* parsing "abc"
DivideByZero == ErrorAlt(Message("Cannot divide by 0"))
Scenario(parseMessage) ==
  /\ Returned /\ lastOp.op = "Call"
       => LET c == lastOp.call
              r == Result(lastOp.dst) IN
          /\ Completed(lastOp.dst) /\ done(either[lastOp.dst])
          /\ c.fn = "divide" /\ c.x = 10 /\ c.y = 2
               => r = DataAlt(5) /\ error(either, lastOp.dst) = NULL
          /\ c.fn = "divide" /\ c.y = 0 => r = DivideByZero
          /\ c.fn = "divideStr" /\ c.s1 = <<"1", "0">> /\ c.s2 = <<"0">>
               => r = DivideByZero
          /\ c.fn \in {"parseDouble", "divideStr"} /\ c.s1 = <<"a", "b", "c">>
               => r = ErrorAlt(parseMessage)
  /\ \A f \in FrameIds :
       /\ frame[f].st = "active" /\ frame[f].fn = "divideStr"
       /\ frame[f].s1 = <<"1", "0">> /\ frame[f].s2 = <<"0">>
       => /\ frame[f].loc1 # NULL /\ Completed(frame[f].loc1)
               => Result(frame[f].loc1) = DataAlt(10)
          /\ frame[f].loc2 # NULL /\ Completed(frame[f].loc2)
               => Result(frame[f].loc2) = DataAlt(0)
  /\ lastOp.op = "Call" /\ lastOp.call.fn = "divideStr"
       /\ lastOp.call.s1 = <<"a", "b", "c">>
       => \A h \in FrameIds :
            frame[h].st # "none"
              => /\ frame[h].fn # "divide"
                 /\ frame[h].fn = "parseDouble" => frame[h].s1 = <<"a", "b", "c">>
                 /\ frame[h].fn = "divideStr" => frame[h].pc <= 2

\* C22 as stated: divide(10, 2) completes with value 5 and no error;
\* divide(n, 0) completes with the error "Cannot divide by 0"; parsing "10"
\* and "0" and then dividing completes with "Cannot divide by 0" from the
\* final division, both parses having succeeded; parse("abc") completes
\* with the error "Cannot parse 'abc'", and chaining it into further steps
\* never evaluates those steps.
C22_ScenarioAsStated ==
  Scenario([text |-> "Cannot parse '%'", arg |-> <<"a", "b", "c">>])

\* C22 (amended): the same scenario, where parse("abc") completes with the
\* error "Cannot parse 'abc' to double".
C22_Scenario == Scenario(CannotParse(<<"a", "b", "c">>))

C22_Witness ==
  /\ Returned /\ lastOp.op = "Call" /\ lastOp.call.fn = "divideStr"
  /\ lastOp.call.s1 = <<"a", "b", "c">>
  /\ Result(lastOp.dst) = ErrorAlt(CannotParse(<<"a", "b", "c">>))

Mismatched(f) ==
  /\ Running(f) /\ frame[f].either # NULL
  /\ AtInterop(frame[f], Stmt(either, frame[f]))

C26_MismatchRejected ==
  [][\A f \in FrameIds :
       Mismatched(f)
         => /\ frame'[f].acc = frame[f].acc
            /\ either'[frame[f].either] = either[frame[f].either]
            /\ frame'[f].st = "active"
            /\ frame'[f].pc = frame[f].pc]_vars

\* C27: every time propagating composition finds the awaited Either not
\* ready and enters await_suspend, the awaited Either holds an Error: the
\* assertion "`await_suspend` must be called with error state" never
\* fails, whatever Either the step composes.
C27_SuspendWithError ==
  /\ \A f \in FrameIds :
       /\ Running(f) /\ AtCompose(frame[f], Stmt(either, frame[f]))
       /\ ~await_ready(either, Awaited(frame[f], Stmt(either, frame[f])))
       => error(either, Awaited(frame[f], Stmt(either, frame[f]))) # NULL
  /\ fault \notin {"assert", "crash"}

\* C28: in every interleaving of the owner polling done() and the step
\* being resumed on another thread, an Either the owner has seen done()
\* has its handle detached already, so erasing it never destroys a
\* continuation that is still running.
C28_DetachedWhenDone ==
  lastOp.op = "Poll" /\ done(lastOp.pre)
    => lastOp.pre.handle = NULL /\ fault = "none"

\* C29: in every reachable state an Either that holds a continuation
\* handle is Empty (done() is false and both views are absent), so a
\* done() Either never holds a handle.
C29_HandleMeansEmpty ==
  \A i \in EitherIds :
    either[i].st = "live" /\ either[i].handle # NULL
      => /\ ~done(either[i])
         /\ data(either, i) = NULL
         /\ error(either, i) = NULL

\* C30: a step deposits into its owning Either at most once (co_return of
\* a Value, co_return of an Error, or propagation): the deposit ends the
\* step, and from then on the payload of the Either changes only by being
\* moved from or move-assigned to, never by a step.
Deposited(i) ==
  /\ either[i].handle # NULL /\ ~done(either[i])
  /\ Running(either[i].handle) /\ frame[either[i].handle].either = i
  /\ done(either'[i]) /\ either'[i].handle = NULL
  /\ frame'[either[i].handle].st \notin {"active", "suspended"}

MovedFrom(i) ==
  /\ either'[i].result \in {Monostate, MovedFromPayload(either[i].result)}
  /\ \/ Idle
     \/ \E f \in FrameIds :
          /\ Running(f) /\ AtCompose(frame[f], Stmt(either, frame[f]))
          /\ Awaited(frame[f], Stmt(either, frame[f])) = i

AssignedTo(i) ==
  /\ Idle /\ lastOp'.op = "MoveAssign" /\ lastOp'.dst = i
  /\ either'[i].result = either[lastOp'.src].result

C30_DepositOnce ==
  [][\A i \in EitherIds :
       either[i].st = "live" /\ either'[i].st = "live"
         => /\ (\A h \in FrameIds :
                  frame'[h].st \in {"active", "suspended"}
                    /\ frame'[h].either = i
                    => ~done(either'[i]))
            /\ (either'[i].result # either[i].result
                  => Deposited(i) \/ MovedFrom(i) \/ AssignedTo(i))]_vars

\* the Either a step deposited into was moved on by an assignment
C30_Witness ==
  /\ Returned /\ ncalls > 0
  /\ lastOp.op = "MoveAssign" /\ lastOp.src # lastOp.dst
  /\ done(lastOp.pre) /\ lastOp.pre.handle = NULL
  /\ either[lastOp.dst].result = lastOp.pre.result
  /\ either[lastOp.src].result = Monostate

\* C31: in one propagating composition the nested step is evaluated
\* exactly once, Error or Value is decided before anything is extracted,
\* and there are two outcomes only: the value is yielded and the step
\* continues, or the Error is moved to the outer Either and the step ends;
\* no value is taken out of an Either that holds an Error.
Evaluates(f) ==
  /\ frame[f].st = "active" /\ frame[f].ph = "call"
  /\ frame'[f].st = "active" /\ frame'[f].ph = "compose"

ComposesNow(f) ==
  Running(f) /\ AtCompose(frame[f], Stmt(either, frame[f])) /\ vars' # vars

RECURSIVE ChainValue(_, _)
ChainValue(start, i) ==
  IF i = 1 THEN start ELSE ChainValue(start, i - 1) + Pow10(i - 1)

NestedOf(f) ==
  {h \in FrameIds : /\ frame[h].st = "active" /\ frame[h].either # NULL
                    /\ either[frame[h].either].owner = f}

C32_StatementOrder ==
  /\ \A f \in FrameIds :
       frame[f].st = "active" /\ frame[f].fn = "chainedAwaits"
         => /\ Cardinality(NestedOf(f)) <= 1
            /\ frame[f].pc > 1 => frame[f].acc = ChainValue(frame[f].x, frame[f].pc - 1)
            /\ \A h \in NestedOf(f) :
                 /\ frame[f].ph = "compose" /\ frame[f].tmp = frame[h].either
                 /\ frame[f].pc <= frame[f].y
                 /\ frame[h].fn = "returnData"
                      => frame[h].x = ChainValue(frame[f].x, frame[f].pc)
  /\ Returned /\ lastOp.op = "Call" /\ lastOp.call.fn = "chainedAwaits"
       /\ lastOp.call.fs = {}
       => /\ Completed(lastOp.dst)
          /\ Result(lastOp.dst) = DataAlt(ChainValue(lastOp.call.x, lastOp.call.y))
          /\ lastOp.call.y = kChainSteps
               => Result(lastOp.dst) = DataAlt(lastOp.call.x + 110)

\* chainedAwaitsAllSucceed(0) has completed with 110
C32_Witness ==
  /\ Returned /\ lastOp.op = "Call" /\ lastOp.call.fn = "chainedAwaits"
  /\ lastOp.call.y = kChainSteps /\ lastOp.call.fs = {} /\ lastOp.call.x = 0
  /\ Result(lastOp.dst) = DataAlt(110)

\* C33: while an Error propagates up a nest of N levels nothing grows with
\* N: the propagation of a level starts no nested call and no resumption,
\* destroys the frame of that level and hands control back to the
\* enclosing consumer, so the stack is never deeper than it was when the
\* Error was produced.
InFlight ==
  \E i \in EitherIds :
    either[i].st = "live" /\ either[i].owner # DRIVER /\ error(either, i) # NULL

AliveFrames == {h \in FrameIds : frame[h].st \in {"active", "suspended"}}

C33_NoGrowth ==
  [][InFlight /\ vars' # vars
       => /\ Running(Top) /\ AtCompose(frame[Top], Stmt(either, frame[Top]))
          /\ stack' = Pop
          /\ frame'[Top].st \notin {"active", "suspended"}
          /\ \E s \in {{h \in FrameIds : frame'[h].st \in {"active", "suspended"}}} :
               s = AliveFrames \ {Top}
          /\ \A i \in EitherIds : either'[i].st = "live" => either[i].st = "live"
          /\ lastOp.op = "Call" /\ Len(stack) <= lastOp.call.y
          /\ stack' # <<>>
               => error(either', frame'[stack'[Len(stack')]].tmp) # NULL]_vars

\* recursiveCoawait(kDeepStart + 3, 3): the Error made four levels down
\* has reached the driver and every frame is gone
C33_Witness ==
  /\ Returned /\ lastOp.op = "Call" /\ lastOp.call.fn = "recursiveCoawait"
  /\ lastOp.call.y = MaxDepth /\ lastOp.call.x = kDeepStart + MaxDepth
  /\ Result(lastOp.dst) = ErrorAlt(ErrorAtDepth(kDeepStart))
  /\ AliveFrames = {}

\* C34: composing an Either<Void, E> yields no value: with OK the step
\* goes on with its next statement, with an Error the step ends with that
\* Error; computeWithValidation(x) completes with the Error "must be
\* positive" exactly when x <= 0 and with the Value 2x otherwise.
MustBePositive == ErrorAlt(Message("must be positive"))

C34_VoidComposition ==
  /\ \A f \in FrameIds :
       frame[f].st = "active" /\ frame[f].fn = "computeWithValidation"
         => /\ frame[f].acc = NoFrame.acc
            /\ frame[f].pc > 1 => frame[f].x > 0 /\ frame[f].tmp = NULL
            /\ frame[f].tmp # NULL /\ Completed(frame[f].tmp)
                 => Result(frame[f].tmp) =
                      IF frame[f].x <= 0 THEN MustBePositive ELSE DataAlt(OK)
  /\ Returned /\ lastOp.op = "Call" /\ lastOp.call.fn = "computeWithValidation"
       => /\ Completed(lastOp.dst)
          /\ Result(lastOp.dst) = MustBePositive <=> lastOp.call.x <= 0
          /\ lastOp.call.x > 0 => Result(lastOp.dst) = DataAlt(2 * lastOp.call.x)

\* computeWithValidation(0) has ended with the Error of validatePositive
C34_Witness ==
  /\ Returned /\ lastOp.op = "Call" /\ lastOp.call.fn = "computeWithValidation"
  /\ lastOp.call.x = 0
  /\ Result(lastOp.dst) = MustBePositive

\* C35: an exception that escapes the body of a step is never delivered to
\* the caller of the step and never becomes an Error: the program is
\* terminated, so a step that returns to its caller returns an Either and
\* has not thrown.
Throws(c) == c.fn \in {"parseUnchecked", "awaitUnchecked"} /\ stodThrows(c.s1)

C35_Terminates ==
  /\ fault = "terminate"
       => /\ stack # <<>> /\ Stmt(either, frame[Top]).op = "throw"
          /\ \A k \in 1..Len(stack) :
               /\ frame[stack[k]].st = "active"
               /\ ~done(either[frame[stack[k]].either])
  /\ lastOp.op = "Call" /\ Throws(lastOp.call)
       => /\ ~Returned
          /\ \A i \in EitherIds :
               either[i].st = "live"
                 /\ (i = lastOp.dst \/ either[i].owner # DRIVER)
                 => ~done(either[i])
  /\ Returned /\ lastOp.op = "Call"
       /\ lastOp.call.fn \in {"parseUnchecked", "awaitUnchecked"}
       => /\ Completed(lastOp.dst)
          /\ Result(lastOp.dst) = DataAlt(stod(lastOp.call.s1))

\* parseUnchecked("abc") called by awaitUnchecked has thrown: the program
\* is terminated with both steps still in their statements
C35_Witness ==
  /\ fault = "terminate" /\ Len(stack) = 2
  /\ lastOp.op = "Call" /\ lastOp.call.fn = "awaitUnchecked"
  /\ lastOp.call.s1 = <<"a", "b", "c">>

\* C36: move-assigning into an Either that is itself pending first tears
\* down the destination's own continuation, once, and then adopts the
\* state and the handle of the source: from then on the old production of
\* the destination deposits nothing, is not run again, and the adopted
\* production deposits into the destination.
AssignsOver(d) ==
  /\ Idle /\ DriverOwned(d) /\ either[d].handle # NULL
  /\ lastOp' # lastOp /\ lastOp'.op = "MoveAssign"
  /\ lastOp'.dst = d /\ lastOp'.src # d

C36_AssignOverPending ==
  [][/\ (\A d \in EitherIds :
           AssignsOver(d)
             => /\ frame'[either[d].handle].st \in {"none", "freed"}
                /\ OwnerOf(either', either[d].handle) = NULL
                /\ either'[d].handle = either[lastOp'.src].handle
                /\ either'[d].result = either[lastOp'.src].result
                /\ either'[d].handle # NULL
                     => frame'[either'[d].handle].either = d)
     /\ (\A h \in FrameIds :
           /\ lastOp.op = "MoveAssign" /\ lastOp.preDst = "pending"
           /\ lastOp.src # lastOp.dst /\ frame[h].st = "freed"
           /\ lastOp'.op = "Resume" /\ lastOp'.src = h
           => /\ fault' = fault
              /\ either' = either)]_vars

\* C37: for every borrowed view b that data() or error() returns the
\* presence tests agree: bool(b) is true exactly when get() is not null and
\* exactly when b == nullptr is false; and every dereference (->, *,
\* value()) passes an assertion that the view is present before it yields
\* anything.
Present(e, which) == e.result.alt = which

C37_BorrowerGuards ==
  /\ lastOp.op = "test"
       => /\ (lastOp.v = 1) <=> (lastOp.dst # NULL)
          /\ (lastOp.v = 1) <=> (lastOp.origin = 0)
          /\ (lastOp.v = 1) <=> Present(lastOp.pre, lastOp.preDst)
          /\ lastOp.dst \in {NULL, lastOp.src}
          /\ fault = "none"
  /\ lastOp.op \in Dereferences
       => IF Present(lastOp.pre, lastOp.preDst)
          THEN lastOp.dst = lastOp.src /\ fault = "none"
          ELSE lastOp.dst = NULL /\ fault \in {"assert", "crash"}

\* *e.data() on an Either that holds an Error stopped at the assertion
C37_Witness ==
  /\ lastOp.op = "star" /\ lastOp.preDst = "data"
  /\ lastOp.pre.result.alt = "error"
  /\ fault = "assert"
====
